---- MODULE Spec2Model ----
(***************************************************************************)
(* Conversation orchestration engine of the SMS triage bot: escalation     *)
(* classifier, appointment booking flow, session store, identity resolver  *)
(* and the context handed to the language model.                           *)
(*                                                                         *)
(* Text is a sequence of tokens.  A message typed by a user (and a phone   *)
(* number) is a sequence of one-character tokens, so that lower(), strip() *)
(* and the substring tests of the code are computed character by           *)
(* character.  A string literal of the program is one token; an f-string   *)
(* is the concatenation of its literal tokens and its inserted texts.      *)
(***************************************************************************)
EXTENDS Integers, Sequences, FiniteSets, TLC

VARIABLES
    sessions,          \* AIChatbot.session_manager.sessions: session_id -> SessionData
    last,              \* the last call of the chatbot: request, session before it, response, calls made
    nmsgs,             \* number of process_message calls made so far
    hist,              \* a SessionManager's sessions, used through add_message_to_history alone
    appended,          \* every turn passed to add_message_to_history for session HistSession, in order
    mobile_to_session, \* MobileSessionManager.mobile_to_session: normalized number -> session id
    mobile_sessions,   \* MobileSessionManager.session_manager.sessions (keys only matter here)
    returned,          \* raw identifier -> the session keys get_or_create_session_for_mobile returned for it
    mlast,             \* the last call of the MobileSessionManager
    nops,              \* number of MobileSessionManager calls made so far
    appt,              \* an AppointmentState handed from call to call of the AppointmentBookingSystem
    elast,             \* the last call of the AppointmentBookingSystem
    tasks,             \* the process_message coroutines in flight: where each is, its request and locals
    slast,             \* the last call of the TwilioSMSService
    conversation_history, \* claud_chat_twilo.conversation_history: phone number -> messages
    blast,             \* the last call of get_chatbot_response
    nbot,              \* number of get_chatbot_response calls made so far
    webhook_logs,      \* WebhookLogManager.webhook_logs
    wlast,             \* the last call of the WebhookLogManager
    nlogs              \* number of add_webhook_log calls made so far

vars == <<sessions, last, nmsgs, hist, appended, mobile_to_session, mobile_sessions, returned, mlast, nops,
          appt, elast, tasks, slast, conversation_history, blast, nbot, webhook_logs, wlast, nlogs>>

chatVars == <<sessions, last, nmsgs>>
histVars == <<hist, appended>>
mobileVars == <<mobile_to_session, mobile_sessions, returned, mlast, nops>>
engineVars == <<appt, elast>>
taskVars == <<tasks>>
smsVars == <<slast>>
botVars == <<conversation_history, blast, nbot>>
logVars == <<webhook_logs, wlast, nlogs>>
edgeVars == <<smsVars, botVars, logVars>>

(***************************************************************************)
(* Bounds of the model                                                     *)
(***************************************************************************)
\* process_message calls in one behaviour of Spec (all kinds of message, model failures)
MaxMsgs == 4
\* process_message calls in one behaviour of SpecFlow (a whole booking needs 1 + 6)
MaxFlowMsgs == 7
\* add_message_to_history calls made on top of the initial history
MaxAppends == 3
\* MobileSessionManager calls in one behaviour
MaxOps == 4
\* process_message calls in one behaviour of SpecStore (several sessions)
MaxStoreMsgs == 4
\* process_message calls in one behaviour of SpecFull (a whole booking and one call after it)
MaxFullMsgs == 8
\* process_message calls after the first booking in one behaviour of SpecRebook
MaxRebookMsgs == 7
\* send_sms calls in one behaviour of SpecSms
MaxSmsMsgs == 3
\* get_chatbot_response calls in one behaviour of SpecBot
MaxBotMsgs == 6
\* add_webhook_log calls made after the list reached LogCap in one behaviour of SpecLogs
MaxLogExtra == 2
\* process_message calls begun in one behaviour of SpecOverlap (two can be in flight at a time)
MaxOverlapMsgs == 4

(***************************************************************************)
(* Text helpers: str.lower, str.strip, `in`                                *)
(***************************************************************************)
UpperCase == <<"A","B","C","D","E","F","G","H","I","J","K","L","M",
               "N","O","P","Q","R","S","T","U","V","W","X","Y","Z">>
LowerCase == <<"a","b","c","d","e","f","g","h","i","j","k","l","m",
               "n","o","p","q","r","s","t","u","v","w","x","y","z">>

UpperSet == {UpperCase[i] : i \in 1..26}
LowerOf == [c \in UpperSet |-> LowerCase[CHOOSE i \in 1..26 : UpperCase[i] = c]]

LowerChar(c) == IF c \in UpperSet THEN LowerOf[c] ELSE c

\* str.lower()
Lower(s) == [i \in 1..Len(s) |-> LowerChar(s[i])]

IsSpace(c) == c \in {" ", "\t", "\n", "\r"}

\* str.strip(): leading and trailing whitespace removed
Strip(s) ==
    LET keep == {i \in 1..Len(s) : ~IsSpace(s[i])}
    IN  IF keep = {} THEN <<>>
        ELSE LET lo == CHOOSE i \in keep : \A j \in keep : i <= j
                 hi == CHOOSE i \in keep : \A j \in keep : j <= i
             IN  SubSeq(s, lo, hi)

\* keyword in text
Contains(s, k) ==
    \E i \in 0..(Len(s) - Len(k)) : SubSeq(s, i + 1, i + Len(k)) = k

(***************************************************************************)
(* The message texts the users send in this model                          *)
(***************************************************************************)
MsgHelpBook == <<" ","H","e","l","p"," ","b","o","o","k"," ">>
MsgStop == <<"S","t","o","p">>
MsgNone == <<" ","N","o","n","e"," ">>
MsgVisit == <<"v","i","s","i","t">>
Msg911 == <<"9","1","1">>

Messages == {MsgHelpBook, MsgStop, MsgNone, MsgVisit, Msg911}

(***************************************************************************)
(* escalation_dictionary.py                                                *)
(***************************************************************************)
HUMAN_ESCALATION_KEYWORDS ==
  { <<"u","r","g","e","n","t">>,
    <<"h","e","l","p">>,
    <<"r","e","a","l"," ","p","e","r","s","o","n">>,
    <<"l","i","v","e"," ","a","g","e","n","t">>,
    <<"c","h","e","s","t"," ","p","a","i","n">>,
    <<"c","o","n","t","i","n","u","o","u","s"," ","b","l","e","e","d","i","n","g">>,
    <<"s","e","v","e","r","e"," ","b","l","e","e","d","i","n","g">>,
    <<"c","a","n","'","t"," ","b","r","e","a","t","h","e">>,
    <<"d","i","f","f","i","c","u","l","t","y"," ","b","r","e","a","t","h","i","n","g">>,
    <<"u","n","c","o","n","s","c","i","o","u","s">>,
    <<"e","m","e","r","g","e","n","c","y">>,
    <<"9","1","1">>,
    <<"s","e","v","e","r","e"," ","p","a","i","n">>,
    <<"h","e","a","r","t"," ","a","t","t","a","c","k">>,
    <<"s","t","r","o","k","e">>,
    <<"a","l","l","e","r","g","i","c"," ","r","e","a","c","t","i","o","n">>,
    <<"o","v","e","r","d","o","s","e">>,
    <<"s","u","i","c","i","d","e">>,
    <<"s","e","l","f"," ","h","a","r","m">>,
    <<"m","a","j","o","r"," ","i","n","j","u","r","y">>,
    <<"t","r","a","u","m","a">>,
    <<"s","e","v","e","r","e"," ","h","e","a","d","a","c","h","e">>,
    <<"v","i","s","i","o","n"," ","l","o","s","s">>,
    <<"p","a","r","a","l","y","s","i","s">>,
    <<"s","e","i","z","u","r","e">> }

APPOINTMENT_ESCALATION_KEYWORDS ==
  { <<"b","o","o","k">>,
    <<"s","c","h","e","d","u","l","e">>,
    <<"d","o","c","t","o","r">>,
    <<"c","o","n","s","u","l","t">>,
    <<"a","p","p","o","i","n","t","m","e","n","t">>,
    <<"v","i","s","i","t">>,
    <<"s","e","e"," ","a"," ","d","o","c","t","o","r">>,
    <<"c","l","i","n","i","c">>,
    <<"b","o","o","k","i","n","g">>,
    <<"a","v","a","i","l","a","b","l","e">>,
    <<"w","h","e","n"," ","c","a","n"," ","i">>,
    <<"m","a","k","e"," ","a","p","p","o","i","n","t","m","e","n","t">>,
    <<"s","c","h","e","d","u","l","e"," ","v","i","s","i","t">>,
    <<"b","o","o","k"," ","a","p","p","o","i","n","t","m","e","n","t">>,
    <<"s","e","e"," ","p","h","y","s","i","c","i","a","n">>,
    <<"c","o","n","s","u","l","t","a","t","i","o","n">> }

\* any(keyword in message_lower for keyword in keywords)
AnyKeywordIn(keywords, message_lower) == \E keyword \in keywords : Contains(message_lower, keyword)

\* the body of check_escalation_keywords: (human_escalation, appointment_escalation)
escalation_flags(message) ==
    LET message_lower == Lower(message)
    IN  [human |-> AnyKeywordIn(HUMAN_ESCALATION_KEYWORDS, message_lower),
         appointment |-> AnyKeywordIn(APPOINTMENT_ESCALATION_KEYWORDS, message_lower)]

\* escalation_flags of the model's messages, computed once
EscalationTable == [m \in Messages |-> escalation_flags(m)]

\* check_escalation_keywords(message)
check_escalation_keywords(message) ==
    IF message \in DOMAIN EscalationTable THEN EscalationTable[message] ELSE escalation_flags(message)

(***************************************************************************)
(* appointment_booking.py                                                  *)
(***************************************************************************)
APPOINTMENT_QUESTIONS == <<
    [key |-> "purpose",
     question |-> <<"What is the appointment for? (e.g., general checkup, consultation, specific concern)">>,
     required |-> TRUE],
    [key |-> "patient",
     question |-> <<"Who is the appointment for? Please specify 'self' or provide the name of the person">>,
     required |-> TRUE],
    [key |-> "date",
     question |-> <<"Which date would you like for your appointment? (e.g., specific date)">>,
     required |-> TRUE],
    [key |-> "time",
     question |-> <<"What time would you prefer? (e.g., specific time)">>,
     required |-> TRUE],
    [key |-> "format",
     question |-> <<"How would you like to attend? Please choose: phone-call, video, or onsite">>,
     required |-> TRUE],
    [key |-> "specialist",
     question |-> <<"Do you have any preferred specialist or doctor? (optional - you can say 'no preference')">>,
     required |-> FALSE] >>

\* len(self.APPOINTMENT_QUESTIONS)
NQuestions == Len(APPOINTMENT_QUESTIONS)

\* AppointmentState(): the pydantic defaults
AppointmentState0 == [is_booking |-> FALSE, current_question |-> 0, answers |-> <<>>]

\* dict item assignment d[k] = v
DictSet(d, k, v) == [x \in (DOMAIN d) \cup {k} |-> IF x = k THEN v ELSE d[x]]

\* dict.get(k, default)
DictGet(d, k, default) == IF k \in DOMAIN d THEN d[k] ELSE default

StartPreamble == <<"I'd be happy to help you book an appointment! Let me gather some information.\n\n">>

\* mutant: the booking starts with the index already past question 0
start_booking_SkipsFirst ==
    [response |-> StartPreamble \o APPOINTMENT_QUESTIONS[1].question,
     state |-> [is_booking |-> TRUE, current_question |-> 1, answers |-> <<>>]]

\* mutant: the new state is built on an answer map that survived an earlier booking
start_booking_SharedAnswers ==
    [response |-> StartPreamble \o APPOINTMENT_QUESTIONS[1].question,
     state |-> [is_booking |-> TRUE, current_question |-> 0,
                answers |-> [k \in {"format"} |-> <<"o","n","s","i","t","e">>]]]

\* start_booking() -> (response, state)
start_booking ==
    [response |-> StartPreamble \o APPOINTMENT_QUESTIONS[1].question,
     state |-> [is_booking |-> TRUE, current_question |-> 0, answers |-> <<>>]]

NoPreference ==
  { <<"n","o"," ","p","r","e","f","e","r","e","n","c","e">>,
    <<"n","o">>,
    <<"n","o","n","e">> }

NotSpecified == <<"Not specified">>

\* mutant: the no-preference words are compared without lower()
generate_confirmation_CaseSensitive(answers) ==
    <<"Perfect! Here's a summary of your appointment request:\n\n">>
    \o <<"Appointment Details:\n">>
    \o <<"Purpose: ">> \o DictGet(answers, "purpose", NotSpecified) \o <<"\n">>
    \o <<"Patient: ">> \o DictGet(answers, "patient", NotSpecified) \o <<"\n">>
    \o <<"Date: ">> \o DictGet(answers, "date", NotSpecified) \o <<"\n">>
    \o <<"Time: ">> \o DictGet(answers, "time", NotSpecified) \o <<"\n">>
    \o <<"Format: ">> \o DictGet(answers, "format", NotSpecified) \o <<"\n">>
    \o (IF /\ "specialist" \in DOMAIN answers
           /\ answers["specialist"] # <<>>
           /\ answers["specialist"] \notin NoPreference
        THEN <<"Preferred specialist: ">> \o answers["specialist"] \o <<"\n">>
        ELSE <<>>)
    \o <<"\nYour appointment request has been submitted! Our team will contact you shortly to confirm the details.\n\n">>
    \o <<"Is there anything else I can help you with today?">>

\* _generate_confirmation(answers)
generate_confirmation(answers) ==
    <<"Perfect! Here's a summary of your appointment request:\n\n">>
    \o <<"Appointment Details:\n">>
    \o <<"Purpose: ">> \o DictGet(answers, "purpose", NotSpecified) \o <<"\n">>
    \o <<"Patient: ">> \o DictGet(answers, "patient", NotSpecified) \o <<"\n">>
    \o <<"Date: ">> \o DictGet(answers, "date", NotSpecified) \o <<"\n">>
    \o <<"Time: ">> \o DictGet(answers, "time", NotSpecified) \o <<"\n">>
    \o <<"Format: ">> \o DictGet(answers, "format", NotSpecified) \o <<"\n">>
    \o (IF /\ "specialist" \in DOMAIN answers
           /\ answers["specialist"] # <<>>
           /\ Lower(answers["specialist"]) \notin NoPreference
        THEN <<"Preferred specialist: ">> \o answers["specialist"] \o <<"\n">>
        ELSE <<>>)
    \o <<"\nYour appointment request has been submitted! Our team will contact you shortly to confirm the details.\n\n">>
    \o <<"Is there anything else I can help you with today?">>

NotBookingText == <<"I'm not currently in appointment booking mode.">>
OutOfRangeText == <<"There seems to be an error with the booking process.">>
NextQuestionPreamble == <<"Thank you! Next question:\n\n">>

\* mutant: the answer is recorded as typed, without strip()
StoredAnswer_Unstripped(user_message) == user_message

\* user_message.strip() of the model's messages, computed once
StripTable == [m \in Messages |-> Strip(m)]

\* the text recorded as the answer: user_message.strip()
StoredAnswer(user_message) ==
    IF user_message \in DOMAIN StripTable THEN StripTable[user_message] ELSE Strip(user_message)

\* mutant: the last answer returns the confirmation but the booking flag stays set
process_answer_StaysBooking(user_message, state) ==
    IF ~state.is_booking
    THEN [response |-> NotBookingText, state |-> state, is_complete |-> FALSE]
    ELSE IF state.current_question >= NQuestions
    THEN [response |-> OutOfRangeText, state |-> state, is_complete |-> FALSE]
    ELSE
      LET current_q == APPOINTMENT_QUESTIONS[state.current_question + 1]
          answers == DictSet(state.answers, current_q.key, StoredAnswer(user_message))
          next == state.current_question + 1
      IN  IF next < NQuestions
          THEN [response |-> NextQuestionPreamble \o APPOINTMENT_QUESTIONS[next + 1].question,
                state |-> [is_booking |-> TRUE, current_question |-> next, answers |-> answers],
                is_complete |-> FALSE]
          ELSE [response |-> generate_confirmation(answers),
                state |-> [is_booking |-> TRUE, current_question |-> next, answers |-> answers],
                is_complete |-> TRUE]

\* mutant: a call outside the flow hands back a new state instead of the one it got
process_answer_ResetsOnMisuse(user_message, state) ==
    IF ~state.is_booking
    THEN [response |-> NotBookingText, state |-> AppointmentState0, is_complete |-> FALSE]
    ELSE IF state.current_question >= NQuestions
    THEN [response |-> OutOfRangeText, state |-> AppointmentState0, is_complete |-> FALSE]
    ELSE
      LET current_q == APPOINTMENT_QUESTIONS[state.current_question + 1]
          answers == DictSet(state.answers, current_q.key, StoredAnswer(user_message))
          next == state.current_question + 1
      IN  IF next < NQuestions
          THEN [response |-> NextQuestionPreamble \o APPOINTMENT_QUESTIONS[next + 1].question,
                state |-> [is_booking |-> TRUE, current_question |-> next, answers |-> answers],
                is_complete |-> FALSE]
          ELSE [response |-> generate_confirmation(answers),
                state |-> [is_booking |-> FALSE, current_question |-> next, answers |-> answers],
                is_complete |-> TRUE]

\* mutant: the answer is recorded but the index is not moved to the next question
process_answer_NoAdvance(user_message, state) ==
    IF ~state.is_booking
    THEN [response |-> NotBookingText, state |-> state, is_complete |-> FALSE]
    ELSE IF state.current_question >= NQuestions
    THEN [response |-> OutOfRangeText, state |-> state, is_complete |-> FALSE]
    ELSE
      LET current_q == APPOINTMENT_QUESTIONS[state.current_question + 1]
          answers == DictSet(state.answers, current_q.key, StoredAnswer(user_message))
          next == state.current_question
      IN  IF next < NQuestions
          THEN [response |-> NextQuestionPreamble \o APPOINTMENT_QUESTIONS[next + 1].question,
                state |-> [is_booking |-> TRUE, current_question |-> next, answers |-> answers],
                is_complete |-> FALSE]
          ELSE [response |-> generate_confirmation(answers),
                state |-> [is_booking |-> FALSE, current_question |-> next, answers |-> answers],
                is_complete |-> TRUE]

\* process_answer(user_message, state) -> (response, updated_state, is_complete)
process_answer(user_message, state) ==
    IF ~state.is_booking
    THEN [response |-> NotBookingText, state |-> state, is_complete |-> FALSE]
    ELSE IF state.current_question >= NQuestions
    THEN [response |-> OutOfRangeText, state |-> state, is_complete |-> FALSE]
    ELSE
      LET current_q == APPOINTMENT_QUESTIONS[state.current_question + 1]
          answers == DictSet(state.answers, current_q.key, StoredAnswer(user_message))
          next == state.current_question + 1
      IN  IF next < NQuestions
          THEN [response |-> NextQuestionPreamble \o APPOINTMENT_QUESTIONS[next + 1].question,
                state |-> [is_booking |-> TRUE, current_question |-> next, answers |-> answers],
                is_complete |-> FALSE]
          ELSE [response |-> generate_confirmation(answers),
                state |-> [is_booking |-> FALSE, current_question |-> next, answers |-> answers],
                is_complete |-> TRUE]

CancelText == <<"I've cancelled the appointment booking process. Is there anything else I can help you with?">>

\* mutant: the flag is reset but the collected answers and the index are kept
cancel_booking_KeepsAnswers(state) ==
    [response |-> CancelText, state |-> [state EXCEPT !.is_booking = FALSE]]

\* mutant: index and answers are reset but the booking flag stays set
cancel_booking_StaysBooking(state) ==
    [response |-> CancelText,
     state |-> [is_booking |-> TRUE, current_question |-> 0, answers |-> <<>>]]

\* cancel_booking(state) -> (response, state)
cancel_booking(state) ==
    [response |-> CancelText,
     state |-> [is_booking |-> FALSE, current_question |-> 0, answers |-> <<>>]]

cancel_keywords ==
  { <<"c","a","n","c","e","l">>,
    <<"s","t","o","p">>,
    <<"q","u","i","t">>,
    <<"e","x","i","t">>,
    <<"n","e","v","e","r","m","i","n","d">>,
    <<"n","e","v","e","r"," ","m","i","n","d">>,
    <<"a","b","o","r","t">>,
    <<"b","a","c","k">>,
    <<"r","e","t","u","r","n">>,
    <<"n","o"," ","t","h","a","n","k","s">>,
    <<"n","o","t"," ","n","o","w">> }

\* the body of is_cancel_intent
cancel_intent(message) ==
    LET message_lower == Strip(Lower(message))
    IN  AnyKeywordIn(cancel_keywords, message_lower)

\* cancel_intent of the model's messages, computed once
CancelTable == [m \in Messages |-> cancel_intent(m)]

\* is_cancel_intent(message)
is_cancel_intent(message) ==
    IF message \in DOMAIN CancelTable THEN CancelTable[message] ELSE cancel_intent(message)

(***************************************************************************)
(* session_manager.py                                                      *)
(***************************************************************************)
\* "Keep only last 20 messages"
HistoryCap == 20

\* SessionData(session_id, appointment_state=AppointmentState(), conversation_history=[])
NewSession == [appointment_state |-> AppointmentState0, conversation_history |-> <<>>]

\* mutant: every reference to a key makes a new session, the stored one is lost
get_session_AlwaysNew(S, session_id) ==
    [x \in (DOMAIN S) \cup {session_id} |-> IF x = session_id THEN NewSession ELSE S[x]]

\* get_session(session_id): the store after the call (the session is created when absent)
get_session(S, session_id) ==
    IF session_id \in DOMAIN S
    THEN S
    ELSE [x \in (DOMAIN S) \cup {session_id} |-> IF x = session_id THEN NewSession ELSE S[x]]

\* update_session(session_id, session_data)
update_session(S, session_id, session_data) ==
    [x \in (DOMAIN S) \cup {session_id} |-> IF x = session_id THEN session_data ELSE S[x]]

\* mutant: the slice keeps the oldest 20 turns, so the new turn is the one dropped
AppendCapped_KeepsOldest(history, turn) ==
    LET h == Append(history, turn)
    IN  IF Len(h) > HistoryCap THEN SubSeq(h, 1, HistoryCap) ELSE h

\* the list after append and the "last 20" slice
AppendCapped(history, turn) ==
    LET h == Append(history, turn)
    IN  IF Len(h) > HistoryCap THEN SubSeq(h, Len(h) - HistoryCap + 1, Len(h)) ELSE h

\* mutant: the sessions share one history list, a turn appended to one shows in all
add_message_to_history_SharedList(S, session_id, message_type, content) ==
    LET S1 == get_session(S, session_id)
        turn == [type |-> message_type, content |-> content]
    IN  [id \in DOMAIN S1 |->
            [S1[id] EXCEPT !.conversation_history = AppendCapped(@, turn)]]

\* add_message_to_history(session_id, message_type, content)
add_message_to_history(S, session_id, message_type, content) ==
    LET S1 == get_session(S, session_id)
        turn == [type |-> message_type, content |-> content]
    IN  [S1 EXCEPT ![session_id].conversation_history = AppendCapped(@, turn)]

\* mutant: the whole store is emptied instead of the one session
clear_session_ClearsAll(S, session_id) ==
    IF session_id \in DOMAIN S
    THEN [sessions |-> <<>>, result |-> TRUE]
    ELSE [sessions |-> S, result |-> FALSE]

\* clear_session(session_id) -> bool
clear_session(S, session_id) ==
    IF session_id \in DOMAIN S
    THEN [sessions |-> [x \in (DOMAIN S) \ {session_id} |-> S[x]], result |-> TRUE]
    ELSE [sessions |-> S, result |-> FALSE]

(***************************************************************************)
(* prompt_dictionary.py                                                    *)
(***************************************************************************)
HRH_SYSTEM_PROMPT == <<"You are a medical triage assistant for a healthcare organization. ...">>
SMB_SYSTEM_PROMPT == <<"You are a friendly wellness assistant for a small medical business. ...">>

\* get_system_prompt(org_type)
get_system_prompt(org_type) ==
    IF org_type = "HRH" THEN HRH_SYSTEM_PROMPT ELSE SMB_SYSTEM_PROMPT

(***************************************************************************)
(* ai_chatbot.py                                                           *)
(***************************************************************************)
EmergencyText == <<"Please take action immediately. Based on your message, it's important that you seek immediate medical attention or contact emergency services if this is a medical emergency.">>
FallbackText == <<"I'm having trouble processing your request right now. For immediate medical concerns, please contact your healthcare provider or emergency services.">>

\* "limit to last 10 messages"
ContextWindow == 10

\* mutant: the oldest 10 turns are taken instead of the most recent 10
recent_history_Oldest(history) ==
    IF Len(history) > ContextWindow THEN SubSeq(history, 1, ContextWindow) ELSE history

\* history[-10:] if len(history) > 10 else history
recent_history(history) ==
    IF Len(history) > ContextWindow
    THEN SubSeq(history, Len(history) - ContextWindow + 1, Len(history))
    ELSE history

\* the loop over recent_history: a HumanMessage per "human" turn, "ai" turns skipped
RECURSIVE ReplayTurns(_)
ReplayTurns(turns) ==
    IF turns = <<>> THEN <<>>
    ELSE (IF Head(turns).type = "human"
          THEN <<[role |-> "human", content |-> Head(turns).content]>>
          ELSE <<>>) \o ReplayTurns(Tail(turns))

\* the messages list built by _generate_ai_response before the call of the model
build_messages(history, org_type, message) ==
    <<[role |-> "system", content |-> get_system_prompt(org_type)]>>
    \o ReplayTurns(recent_history(history))
    \o <<[role |-> "human", content |-> message]>>

\* _generate_ai_response(message, org_type, session_id); llm is the outcome of self.llm.ainvoke
generate_ai_response(S, message, org_type, session_id, llm) ==
    LET S1 == get_session(S, session_id)
        history == S1[session_id].conversation_history
    IN  [sessions |-> S1,
         messages |-> build_messages(history, org_type, message),
         raised |-> ~llm.ok,
         text |-> IF llm.ok THEN Strip(llm.content) ELSE <<>>]

ChatResponse(response, escalation_type, human, appointment, session_id, review) ==
    [response |-> response, escalation_type |-> escalation_type,
     human_escalation |-> human, appointment_escalation |-> appointment,
     session_id |-> session_id, requires_review |-> review]

\* mutant: the user's message is stored before the reply of the booking flow
booking_history_BothTurns(S, session_id, user_message, response_text) ==
    add_message_to_history(add_message_to_history(S, session_id, "human", user_message),
                           session_id, "ai", response_text)

\* "Add AI response to history", in both paths of _handle_appointment_booking
booking_history(S, session_id, user_message, response_text) ==
    add_message_to_history(S, session_id, "ai", response_text)

\* mutant: an answer always reports the booking as going on
booking_escalation_type_NeverNone(is_complete) == "appointment_booking"

\* "Determine escalation type based on completion"
booking_escalation_type(is_complete) ==
    IF is_complete THEN "none" ELSE "appointment_booking"

\* _handle_appointment_booking(user_message, session_id, session_data)
handle_appointment_booking(S, user_message, session_id) ==
    LET session_data == S[session_id]
    IN  IF is_cancel_intent(user_message)
        THEN LET c == cancel_booking(session_data.appointment_state)
                 S1 == update_session(S, session_id,
                                      [session_data EXCEPT !.appointment_state = c.state])
                 S2 == booking_history(S1, session_id, user_message, c.response)
             IN  [sessions |-> S2,
                  response |-> ChatResponse(c.response, "none", FALSE, FALSE, session_id, FALSE),
                  classified |-> FALSE, llm_calls |-> <<>>, raised |-> FALSE]
        ELSE LET p == process_answer(user_message, session_data.appointment_state)
                 S1 == update_session(S, session_id,
                                      [session_data EXCEPT !.appointment_state = p.state])
                 S2 == booking_history(S1, session_id, user_message, p.response)
             IN  [sessions |-> S2,
                  response |-> ChatResponse(p.response,
                                            booking_escalation_type(p.is_complete),
                                            FALSE, ~p.is_complete, session_id, FALSE),
                  classified |-> FALSE, llm_calls |-> <<>>, raised |-> FALSE]

\* mutant: the escalation keywords are looked at before the booking flag
message_branch_HumanFirst(session_data, esc) ==
    IF esc.human THEN "human"
    ELSE IF session_data.appointment_state.is_booking THEN "booking"
    ELSE IF esc.appointment THEN "appointment"
    ELSE "general"

\* mutant: the appointment keywords take priority over the human keywords
message_branch_AppointmentFirst(session_data, esc) ==
    IF session_data.appointment_state.is_booking THEN "booking"
    ELSE IF esc.appointment THEN "appointment"
    ELSE IF esc.human THEN "human"
    ELSE "general"

\* mutant: a message without escalation keyword goes to the booking handler, booking or not
message_branch_BookingDefault(session_data, esc) ==
    IF session_data.appointment_state.is_booking \/ (~esc.human /\ ~esc.appointment) THEN "booking"
    ELSE IF esc.human THEN "human"
    ELSE "appointment"

\* mutant: a message without escalation keyword goes to the model, booking or not
message_branch_GeneralFirst(session_data, esc) ==
    IF ~esc.human /\ ~esc.appointment THEN "general"
    ELSE IF session_data.appointment_state.is_booking THEN "booking"
    ELSE IF esc.human THEN "human"
    ELSE "appointment"

\* the if-chain of process_message: which branch handles the message
message_branch(session_data, esc) ==
    IF session_data.appointment_state.is_booking THEN "booking"
    ELSE IF esc.human THEN "human"
    ELSE IF esc.appointment THEN "appointment"
    ELSE "general"

\* request.session_id when the request carries none: None and "" are both falsy
NoSessionId == ""

\* request.session_id or SessionManager.generate_session_id(); uuid is the generated id
effective_session_id(request, uuid) ==
    IF request.session_id = NoSessionId THEN uuid ELSE request.session_id

\* mutant: the user's message is stored too, before the emergency message
human_escalation_reply_BothTurns(S, request, session_id) ==
    LET S1 == add_message_to_history(S, session_id, "human", request.message)
    IN  [sessions |-> add_message_to_history(S1, session_id, "ai", EmergencyText),
         response |-> ChatResponse(EmergencyText, "human_escalation", TRUE, FALSE, session_id, TRUE)]

\* "Handle human escalation (highest priority)"
human_escalation_reply(S, request, session_id) ==
    [sessions |-> add_message_to_history(S, session_id, "ai", EmergencyText),
     response |-> ChatResponse(EmergencyText, "human_escalation", TRUE, FALSE, session_id, TRUE)]

\* mutant: the reply of the model is stored before the user's message
general_reply_AiFirst(S, request, session_id, ai_response) ==
    LET S1 == add_message_to_history(S, session_id, "ai", ai_response)
        S2 == add_message_to_history(S1, session_id, "human", request.message)
    IN  [sessions |-> S2,
         response |-> ChatResponse(ai_response, "none", FALSE, FALSE, session_id, FALSE),
         raised |-> FALSE]

\* the try block after _generate_ai_response returned ai_response
general_reply(S, request, session_id, ai_response) ==
    LET S1 == add_message_to_history(S, session_id, "human", request.message)
        S2 == add_message_to_history(S1, session_id, "ai", ai_response)
    IN  [sessions |-> S2,
         response |-> ChatResponse(ai_response, "none", FALSE, FALSE, session_id, FALSE),
         raised |-> FALSE]

\* mutant: only the fallback message is stored, the user's message is dropped
fallback_reply_AiOnly(S, request, session_id) ==
    [sessions |-> add_message_to_history(S, session_id, "ai", FallbackText),
     response |-> ChatResponse(FallbackText, "human_escalation", TRUE, FALSE, session_id, TRUE),
     raised |-> FALSE]

\* mutant: no except clause, the exception of _generate_ai_response leaves process_message
fallback_reply_Reraise(S, request, session_id) ==
    [sessions |-> S,
     response |-> ChatResponse(<<>>, "exception", FALSE, FALSE, session_id, FALSE),
     raised |-> TRUE]

\* mutant: the fallback is returned as an escalation that needs no review
fallback_reply_NoReview(S, request, session_id) ==
    LET S1 == add_message_to_history(S, session_id, "human", request.message)
        S2 == add_message_to_history(S1, session_id, "ai", FallbackText)
    IN  [sessions |-> S2,
         response |-> ChatResponse(FallbackText, "human_escalation", TRUE, FALSE, session_id, FALSE),
         raised |-> FALSE]

\* the except clause of process_message
fallback_reply(S, request, session_id) ==
    LET S1 == add_message_to_history(S, session_id, "human", request.message)
        S2 == add_message_to_history(S1, session_id, "ai", FallbackText)
    IN  [sessions |-> S2,
         response |-> ChatResponse(FallbackText, "human_escalation", TRUE, FALSE, session_id, TRUE),
         raised |-> FALSE]

\* mutant: after the await the session read before it is stored back, then appended to
session_at_resume_Stale(S, task) == update_session(S, task.session_id, task.session_data)

\* the store after the await: add_message_to_history calls get_session again and
\* appends to the session the store holds then, not to one read before the await
session_at_resume(S, task) == get_session(S, task.session_id)

\* process_message from "await self.llm.ainvoke(messages)" to its return
resume_process_message(S, task, llm) ==
    LET S0 == session_at_resume(S, task)
    IN  IF llm.ok
        THEN general_reply(S0, task.request, task.session_id, Strip(llm.content))
        ELSE fallback_reply(S0, task.request, task.session_id)

\* process_message(request); llm is the outcome of self.llm.ainvoke, uuid the id
\* generate_session_id() returns when it is called
process_message(S, request, llm, uuid) ==
    LET session_id == effective_session_id(request, uuid)
        S0 == get_session(S, session_id)
        session_data == S0[session_id]
        esc == check_escalation_keywords(request.message)
        branch == message_branch(session_data, esc)
    IN  IF branch = "booking"
        THEN handle_appointment_booking(S0, request.message, session_id)
        ELSE IF branch = "human"
        THEN LET h == human_escalation_reply(S0, request, session_id)
             IN  [sessions |-> h.sessions, response |-> h.response,
                  classified |-> TRUE, llm_calls |-> <<>>, raised |-> FALSE]
        ELSE IF branch = "appointment"
        THEN LET b == start_booking
                 S1 == update_session(S0, session_id,
                                      [session_data EXCEPT !.appointment_state = b.state])
                 S2 == add_message_to_history(S1, session_id, "ai", b.response)
             IN  [sessions |-> S2,
                  response |-> ChatResponse(b.response, "appointment_booking", FALSE, TRUE, session_id, FALSE),
                  classified |-> TRUE, llm_calls |-> <<>>, raised |-> FALSE]
        ELSE LET g == generate_ai_response(S0, request.message, request.organization_type, session_id, llm)
                 r == IF g.raised
                      THEN fallback_reply(g.sessions, request, session_id)
                      ELSE general_reply(g.sessions, request, session_id, g.text)
             IN  [sessions |-> r.sessions, response |-> r.response,
                  classified |-> TRUE, llm_calls |-> <<g.messages>>, raised |-> r.raised]

(***************************************************************************)
(* mobile_session_manager.py                                               *)
(***************************************************************************)
DigitChars == {"0","1","2","3","4","5","6","7","8","9"}

\* char.isdigit() or char == '+'
IsDigitOrPlus(c) == c \in DigitChars \/ c = "+"
\* char.isdigit()
IsDigit(c) == c \in DigitChars
IsNotPlus(c) == c # "+"

\* hashlib.md5(text.encode()).hexdigest()[:16], taken as injective: the fingerprint
\* of a text is known by the text it was computed from
Md5Hex16(text) == <<"md5">> \o text

IsNotSpaceOrHyphen(c) == c \notin {" ", "-"}

\* mutant: only blanks and hyphens are removed, not every character but digits and +
cleaned_number_SpacesOnly(mobile_number) == SelectSeq(mobile_number, IsNotSpaceOrHyphen)

\* ''.join(char for char in mobile_number if char.isdigit() or char == '+')
cleaned_number(mobile_number) == SelectSeq(mobile_number, IsDigitOrPlus)

\* mutant: the 11-digit form with the leading 1 is not recognised
normalize_mobile_number_NoElevenCase(mobile_number) ==
    LET cleaned == cleaned_number(mobile_number)
        digits_only == SelectSeq(cleaned, IsNotPlus)
    IN  IF Len(digits_only) = 10 THEN <<"+","1">> \o digits_only
        ELSE IF cleaned # <<>> /\ Head(cleaned) = "+" THEN cleaned
        ELSE <<"+","1">> \o digits_only

\* _normalize_mobile_number(mobile_number)
normalize_mobile_number(mobile_number) ==
    LET cleaned == cleaned_number(mobile_number)
        digits_only == SelectSeq(cleaned, IsNotPlus)
    IN  IF Len(digits_only) = 10 THEN <<"+","1">> \o digits_only
        ELSE IF Len(digits_only) = 11 /\ Head(digits_only) = "1" THEN <<"+">> \o digits_only
        ELSE IF cleaned # <<>> /\ Head(cleaned) = "+" THEN cleaned
        ELSE <<"+","1">> \o digits_only

\* _generate_mobile_session_id(mobile_number): f"{digits_only}_{hash_part}"
generate_mobile_session_id(mobile_number) ==
    LET normalized_number == normalize_mobile_number(mobile_number)
    IN  [digits |-> SelectSeq(normalized_number, IsDigit),
         hash |-> Md5Hex16(normalized_number)]

\* mutant: the id of a new mapping carries a per-call unique part, as a uuid would
new_mobile_session_id_Unique(normalized_number) ==
    [digits |-> SelectSeq(normalized_number, IsDigit),
     hash |-> Md5Hex16(normalized_number) \o [i \in 1..nops |-> "#"]]

\* the id get_or_create_session_for_mobile stores for a number it has no mapping for
new_mobile_session_id(normalized_number) == generate_mobile_session_id(normalized_number)

\* get_or_create_session_for_mobile(mobile_number) on mapping M and store S
get_or_create_session_for_mobile(M, S, mobile_number) ==
    LET normalized_number == normalize_mobile_number(mobile_number)
        session_id == IF normalized_number \in DOMAIN M
                      THEN M[normalized_number]
                      ELSE new_mobile_session_id(normalized_number)
        M1 == IF normalized_number \in DOMAIN M
              THEN M
              ELSE [x \in (DOMAIN M) \cup {normalized_number} |->
                       IF x = normalized_number THEN session_id ELSE M[x]]
    IN  [mobile_to_session |-> M1, sessions |-> get_session(S, session_id), session_id |-> session_id]

\* clear_mobile_session(mobile_number) -> bool
clear_mobile_session(M, S, mobile_number) ==
    LET normalized_number == normalize_mobile_number(mobile_number)
    IN  IF normalized_number \in DOMAIN M
        THEN [mobile_to_session |-> [x \in (DOMAIN M) \ {normalized_number} |-> M[x]],
              sessions |-> clear_session(S, M[normalized_number]).sessions,
              result |-> TRUE]
        ELSE [mobile_to_session |-> M, sessions |-> S, result |-> FALSE]

\* get_mobile_session_id(mobile_number): "return self.get_or_create_session_for_mobile(mobile_number)"
get_mobile_session_id(M, S, mobile_number) ==
    get_or_create_session_for_mobile(M, S, mobile_number)

(***************************************************************************)
(* webhook_log_manager.py                                                  *)
(***************************************************************************)
\* "Keep only last 1000 logs to prevent memory issues"
LogCap == 1000

\* the values of MessageStatus the model uses
LogStatuses == {"delivered", "failed"}

\* seq[-n:] of Python for n >= 0: the last n elements, the whole of seq for n = 0
\* and for n >= len(seq)
PyLast(seq, n) ==
    IF n = 0 \/ n >= Len(seq) THEN seq ELSE SubSeq(seq, Len(seq) - n + 1, Len(seq))

\* reversed(seq)
Reversed(seq) == [i \in 1..Len(seq) |-> seq[Len(seq) - i + 1]]

\* the log_entry add_webhook_log builds (the timestamp, which no operation reads, left out)
log_entry(message_sid, status, from_number, to_number) ==
    [message_sid |-> message_sid, status |-> status,
     from_number |-> from_number, to_number |-> to_number]

\* add_webhook_log(...) on the list logs
add_webhook_log(logs, entry) ==
    LET appended_logs == Append(logs, entry)
    IN  IF Len(appended_logs) > LogCap THEN PyLast(appended_logs, LogCap) ELSE appended_logs

\* WebhookLogEntry(...) built from a stored log: the same fields, the status as MessageStatus
WebhookLogEntry(log) ==
    [message_sid |-> log.message_sid, status |-> log.status,
     from_number |-> log.from_number, to_number |-> log.to_number]

\* mutant: the entries are returned in the order they are stored, oldest first
get_recent_logs_OldestFirst(logs, limit) ==
    LET recent_logs == IF Len(logs) <= limit THEN logs ELSE PyLast(logs, limit)
    IN  [i \in 1..Len(recent_logs) |-> WebhookLogEntry(recent_logs[i])]

\* get_recent_logs(limit) on the list logs
get_recent_logs(logs, limit) ==
    LET recent_logs == IF Len(logs) <= limit THEN logs ELSE PyLast(logs, limit)
        newest_first == Reversed(recent_logs)
    IN  [i \in 1..Len(newest_first) |-> WebhookLogEntry(newest_first[i])]

(***************************************************************************)
(* claud_chat_twilo.py: the standalone SMS bot                             *)
(***************************************************************************)
BotSystemPrompt == <<"You are a knowledgeable medical information assistant providing general health education via SMS. ...">>
BotErrorText == <<"Sorry, I'm having trouble processing your request right now. Please try again later.">>

\* "Keep only last 10 messages to prevent context from getting too long"
BotWindow == 10

\* get_chatbot_response(user_message, phone_number) on the dict C; completion is the
\* outcome of openai_client.chat.completions.create
get_chatbot_response(C, user_message, phone_number, completion) ==
    LET started == IF phone_number \in DOMAIN C
                   THEN C[phone_number]
                   ELSE <<[role |-> "system", content |-> BotSystemPrompt]>>
        asked == Append(started, [role |-> "user", content |-> user_message])
        assistant_message == Strip(completion.content)
        answered == Append(asked, [role |-> "assistant", content |-> assistant_message])
        kept == IF ~completion.ok THEN asked
                ELSE IF Len(answered) > BotWindow THEN PyLast(answered, BotWindow)
                ELSE answered
    IN  [conversation_history |-> [x \in (DOMAIN C) \cup {phone_number} |->
                                      IF x = phone_number THEN kept ELSE C[x]],
         messages |-> asked,
         reply |-> IF completion.ok THEN assistant_message ELSE BotErrorText]

(***************************************************************************)
(* The chatbot as a state machine: one action per call of its interface,   *)
(* calls handled one after the other                                       *)
(***************************************************************************)
SessionIds == {"s1"}
OrganizationType == {"HRH", "SMB"}

\* the messages of SpecFlow
FlowMessages == {MsgHelpBook, MsgStop, MsgNone, MsgVisit}

\* outcomes of self.llm.ainvoke: a reply, or an exception
LlmReply == [ok |-> TRUE, content |-> <<" ","o","k"," ">>]
LlmException == [ok |-> FALSE, content |-> <<>>]
LlmOutcomes == {LlmReply, LlmException}
\* no call of the model was made
NoLlm == [ok |-> FALSE, content |-> <<"not called">>]

\* ids generate_session_id() can return: str(uuid.uuid4())
GeneratedIds == {"u1", "u2"}

NoRequest == [message |-> <<>>, organization_type |-> "SMB", session_id |-> NoSessionId]
NoResponse == ChatResponse(<<>>, "none", FALSE, FALSE, "", FALSE)

\* the session get_session returns for session_id in store S
SessionOf(S, session_id) == get_session(S, session_id)[session_id]

ChatInit ==
    /\ sessions = <<>>
    /\ last = [op |-> "init", request |-> NoRequest, existed |-> FALSE, pre |-> NewSession,
               response |-> NoResponse, classified |-> FALSE, llm_calls |-> <<>>,
               llm |-> NoLlm, raised |-> FALSE, result |-> FALSE]
    /\ nmsgs = 0

ProcessMessage(session_id, message, org_type, llm, uuid) ==
    /\ LET request == [message |-> message, organization_type |-> org_type, session_id |-> session_id]
           id == effective_session_id(request, uuid)
           r == process_message(sessions, request, llm, uuid)
       IN  /\ sessions' = r.sessions
           /\ last' = [op |-> "process_message", request |-> request,
                       existed |-> id \in DOMAIN sessions,
                       pre |-> SessionOf(sessions, id),
                       response |-> r.response, classified |-> r.classified,
                       llm_calls |-> r.llm_calls,
                       llm |-> IF r.llm_calls = <<>> THEN NoLlm ELSE llm,
                       raised |-> r.raised, result |-> FALSE]
    /\ nmsgs' = nmsgs + 1

\* clear_session_memory(session_id)
ClearSessionMemory(session_id) ==
    /\ last.op # "clear_session"
    /\ LET c == clear_session(sessions, session_id)
       IN  /\ sessions' = c.sessions
           /\ last' = [op |-> "clear_session",
                       request |-> [NoRequest EXCEPT !.session_id = session_id],
                       existed |-> session_id \in DOMAIN sessions,
                       pre |-> SessionOf(sessions, session_id),
                       response |-> NoResponse, classified |-> FALSE,
                       llm_calls |-> <<>>, llm |-> NoLlm, raised |-> FALSE,
                       result |-> c.result]
    /\ UNCHANGED nmsgs

HistInit0 == hist = <<>> /\ appended = <<>>
NoKey == [digits |-> <<>>, hash |-> <<>>]

MobileInit0 ==
    /\ mobile_to_session = <<>>
    /\ mobile_sessions = <<>>
    /\ returned = <<>>
    /\ mlast = [op |-> "init", mobile_number |-> <<>>, mapped |-> FALSE, seen |-> FALSE,
                session_id |-> NoKey, result |-> FALSE]
    /\ nops = 0

\* the calls of process_message that can be in flight at the same time
TaskIds == {"t1", "t2"}
\* session_data is the value the local of that name had when get_session returned it
IdleTask == [pc |-> "idle", request |-> NoRequest, session_id |-> NoSessionId,
             session_data |-> NewSession, messages |-> <<>>]

NoEngineCall == [op |-> "init", message |-> <<>>, pre |-> AppointmentState0,
                 response |-> <<>>, is_complete |-> FALSE]
EngineInit0 == appt = AppointmentState0 /\ elast = NoEngineCall
TaskInit0 == tasks = [t \in TaskIds |-> IdleTask]

\* no call of the TwilioSMSService was made
NoSmsCall == [op |-> "init", mobile_number |-> <<>>, message |-> <<>>, session_id |-> NoSessionId,
              pre |-> NewSession, raised |-> "none",
              chatbot_response |-> <<>>, appointment_booking |-> FALSE,
              in_appointment_booking |-> FALSE]
SmsInit0 == slast = NoSmsCall

\* no call of get_chatbot_response was made
NoBotCall == [op |-> "init", phone_number |-> <<>>, messages |-> <<>>, ok |-> FALSE, reply |-> <<>>]
BotInit0 == conversation_history = <<>> /\ blast = NoBotCall /\ nbot = 0

\* no call of the WebhookLogManager was made
NoLogCall == [op |-> "init", limit |-> 0, pre |-> <<>>, result |-> <<>>]
LogInit0 == webhook_logs = <<>> /\ wlast = NoLogCall /\ nlogs = 0

Init == ChatInit /\ HistInit0 /\ MobileInit0 /\ EngineInit0 /\ TaskInit0
        /\ SmsInit0 /\ BotInit0 /\ LogInit0

Next ==
    \/ \E session_id \in SessionIds, message \in Messages, org_type \in OrganizationType, llm \in LlmOutcomes :
          /\ nmsgs < MaxMsgs
          /\ ProcessMessage(session_id, message, org_type, llm, "u1")
          /\ UNCHANGED <<histVars, mobileVars, engineVars, taskVars, edgeVars>>
    \/ \E session_id \in SessionIds :
          ClearSessionMemory(session_id) /\ UNCHANGED <<histVars, mobileVars, engineVars, taskVars, edgeVars>>

Spec == Init /\ [][Next]_vars

\* long conversations of one session: whole bookings, histories longer than the context window
NextFlow ==
    \E session_id \in SessionIds, message \in FlowMessages, org_type \in OrganizationType :
          /\ nmsgs < MaxFlowMsgs
          /\ ProcessMessage(session_id, message, org_type, LlmReply, "u1")
          /\ UNCHANGED <<histVars, mobileVars, engineVars, taskVars, edgeVars>>

SpecFlow == Init /\ [][NextFlow]_vars

\* the messages of SpecFull: an appointment keyword, a cancellation phrase without
\* escalation keyword, a human-escalation keyword
FullMessages == {MsgVisit, MsgStop, MsgHelpBook}

\* every branch of process_message in one behaviour: a whole booking, its cancellation,
\* an emergency message, and answers of the model that come or fail
NextFull ==
    \E session_id \in SessionIds, message \in FullMessages, llm \in LlmOutcomes :
          /\ nmsgs < MaxFullMsgs
          /\ ProcessMessage(session_id, message, "HRH", llm, "u1")
          /\ UNCHANGED <<histVars, mobileVars, engineVars, taskVars, edgeVars>>

SpecFull == Init /\ [][NextFull]_vars

(***************************************************************************)
(* Overlapping calls of process_message on one event loop: a call runs     *)
(* without interruption up to "await self.llm.ainvoke", the one place it   *)
(* suspends, and from the return of the model to its own return            *)
(***************************************************************************)
\* the turn add_message_to_history(session_id, message_type, content) appends
Turn(message_type, content) == [type |-> message_type, content |-> content]

\* a call arrives in task t: it runs to its return (booking, human, appointment
\* branch) or to the await of the model (general branch)
BeginMessage(t, session_id, message, org_type) ==
    LET request == [message |-> message, organization_type |-> org_type, session_id |-> session_id]
        id == effective_session_id(request, "u1")
        S0 == get_session(sessions, id)
        branch == message_branch(S0[id], check_escalation_keywords(message))
    IN  /\ tasks[t].pc = "idle"
        /\ nmsgs' = nmsgs + 1
        /\ IF branch = "general"
           THEN /\ sessions' = S0
                /\ tasks' = [tasks EXCEPT ![t] =
                                [pc |-> "awaiting", request |-> request, session_id |-> id,
                                 session_data |-> S0[id],
                                 messages |-> build_messages(S0[id].conversation_history,
                                                             org_type, message)]]
                /\ UNCHANGED <<last, appended>>
           ELSE LET r == process_message(sessions, request, NoLlm, "u1")
                IN  /\ sessions' = r.sessions
                    /\ last' = [op |-> "process_message", request |-> request,
                                existed |-> id \in DOMAIN sessions,
                                pre |-> SessionOf(sessions, id),
                                response |-> r.response, classified |-> r.classified,
                                llm_calls |-> r.llm_calls, llm |-> NoLlm,
                                raised |-> r.raised, result |-> FALSE]
                    /\ appended' = Append(appended, Turn("ai", r.response.response))
                    /\ UNCHANGED tasks

\* the model call of task t returns or raises: the rest of process_message runs
ResumeMessage(t, llm) ==
    /\ tasks[t].pc = "awaiting"
    /\ LET task == tasks[t]
           r == resume_process_message(sessions, task, llm)
       IN  /\ sessions' = r.sessions
           /\ last' = [op |-> "process_message", request |-> task.request,
                       existed |-> TRUE,
                       pre |-> SessionOf(sessions, task.session_id),
                       response |-> r.response, classified |-> TRUE,
                       llm_calls |-> <<task.messages>>, llm |-> llm,
                       raised |-> r.raised, result |-> FALSE]
           /\ appended' = appended \o <<Turn("human", task.request.message),
                                        Turn("ai", r.response.response)>>
    /\ tasks' = [tasks EXCEPT ![t] = IdleTask]
    /\ UNCHANGED nmsgs

\* self.llm.ainvoke of task t completes, with a reply or an exception
ModelReturns(t) ==
    \E llm \in LlmOutcomes :
        /\ ResumeMessage(t, llm)
        /\ UNCHANGED <<hist, mobileVars, engineVars, edgeVars>>

\* the messages of SpecOverlap: two of them go to the model when the session is idle
OverlapMessages == FullMessages \cup {MsgNone}

NextOverlap ==
    \/ \E t \in TaskIds, session_id \in SessionIds, message \in OverlapMessages :
          /\ nmsgs < MaxOverlapMsgs
          /\ BeginMessage(t, session_id, message, "HRH")
          /\ UNCHANGED <<hist, mobileVars, engineVars, edgeVars>>
    \/ \E t \in TaskIds : ModelReturns(t)

\* a model call that was made returns or raises in the end
OverlapFairness == \A t \in TaskIds : WF_vars(ModelReturns(t))

SpecOverlap == Init /\ [][NextOverlap]_vars /\ OverlapFairness

\* several sessions in one store: requests carry a session id of their own, an id
\* returned by an earlier response, or none
StoreSessionIds == {NoSessionId, "s1", "u1"}
StoreMessages == {MsgVisit, MsgStop, MsgNone}

NextStore ==
    \/ \E session_id \in StoreSessionIds, message \in StoreMessages, uuid \in GeneratedIds \ DOMAIN sessions :
          /\ nmsgs < MaxStoreMsgs
          /\ ProcessMessage(session_id, message, "SMB", LlmReply, uuid)
          /\ UNCHANGED <<histVars, mobileVars, engineVars, taskVars, edgeVars>>
    \/ \E session_id \in StoreSessionIds \ {NoSessionId} :
          ClearSessionMemory(session_id) /\ UNCHANGED <<histVars, mobileVars, engineVars, taskVars, edgeVars>>

SpecStore == Init /\ [][NextStore]_vars

(***************************************************************************)
(* The identity resolver as a state machine                                *)
(***************************************************************************)
RawPlusParens == <<"+","1"," ","(","4","1","5",")"," ","5","5","5","-","0","1","0","0">>
RawEleven == <<"1","4","1","5","5","5","5","0","1","0","0">>
RawTen == <<"4","1","5","5","5","5","0","1","0","0">>
RawDotted == <<"4","1","5",".","5","5","5",".","0","1","0","0">>
RawOtherTen == <<"4","1","5","-","5","5","5","-","0","1","9","9">>
RawOtherPlus == <<"+","1","4","1","5","5","5","5","0","1","9","9">>
RawUkPlus == <<"+","4","4"," ","2","0"," ","7","1","2","3"," ","4","5","6","7">>
RawUkBare == <<"4","4","2","0","7","1","2","3","4","5","6","7">>

RawPlusTenDigits == <<"+","4","9"," ","3","0"," ","1","2","3","4","5","6">>
RawNine == <<"5","5","5","0","1","0","0","9","9">>
RawOneNine == <<"1","5","5","5","0","1","0","0","9","9">>

\* the sender identifiers of the model
RawIds == {RawPlusParens, RawEleven, RawTen, RawDotted, RawOtherTen, RawOtherPlus, RawUkPlus, RawUkBare,
           RawPlusTenDigits, RawNine, RawOneNine}

GetOrCreateSessionForMobile(mobile_number) ==
    /\ nops < MaxOps
    /\ LET r == get_or_create_session_for_mobile(mobile_to_session, mobile_sessions, mobile_number)
       IN  /\ mobile_to_session' = r.mobile_to_session
           /\ mobile_sessions' = r.sessions
           /\ returned' = [x \in (DOMAIN returned) \cup {mobile_number} |->
                             IF x = mobile_number
                             THEN (IF x \in DOMAIN returned THEN returned[x] ELSE {}) \cup {r.session_id}
                             ELSE returned[x]]
           /\ mlast' = [op |-> "get_or_create", mobile_number |-> mobile_number,
                        mapped |-> normalize_mobile_number(mobile_number) \in DOMAIN mobile_to_session,
                        seen |-> mobile_number \in DOMAIN returned,
                        session_id |-> r.session_id, result |-> FALSE]
    /\ nops' = nops + 1

GetMobileSessionId(mobile_number) ==
    /\ nops < MaxOps
    /\ LET r == get_mobile_session_id(mobile_to_session, mobile_sessions, mobile_number)
       IN  /\ mobile_to_session' = r.mobile_to_session
           /\ mobile_sessions' = r.sessions
           /\ returned' = [x \in (DOMAIN returned) \cup {mobile_number} |->
                             IF x = mobile_number
                             THEN (IF x \in DOMAIN returned THEN returned[x] ELSE {}) \cup {r.session_id}
                             ELSE returned[x]]
           /\ mlast' = [op |-> "get_mobile_session_id", mobile_number |-> mobile_number,
                        mapped |-> normalize_mobile_number(mobile_number) \in DOMAIN mobile_to_session,
                        seen |-> mobile_number \in DOMAIN returned,
                        session_id |-> r.session_id, result |-> FALSE]
    /\ nops' = nops + 1

ClearMobileSession(mobile_number) ==
    /\ nops < MaxOps
    /\ LET r == clear_mobile_session(mobile_to_session, mobile_sessions, mobile_number)
       IN  /\ mobile_to_session' = r.mobile_to_session
           /\ mobile_sessions' = r.sessions
           /\ mlast' = [op |-> "clear", mobile_number |-> mobile_number,
                        mapped |-> normalize_mobile_number(mobile_number) \in DOMAIN mobile_to_session,
                        seen |-> mobile_number \in DOMAIN returned,
                        session_id |-> NoKey, result |-> r.result]
    /\ UNCHANGED returned
    /\ nops' = nops + 1

NextMobile ==
    \/ \E mobile_number \in RawIds :
          GetOrCreateSessionForMobile(mobile_number) /\ UNCHANGED <<chatVars, histVars, engineVars, taskVars, edgeVars>>
    \/ \E mobile_number \in RawIds :
          ClearMobileSession(mobile_number) /\ UNCHANGED <<chatVars, histVars, engineVars, taskVars, edgeVars>>
    \/ \E mobile_number \in RawIds :
          GetMobileSessionId(mobile_number) /\ UNCHANGED <<chatVars, histVars, engineVars, taskVars, edgeVars>>

SpecMobile == Init /\ [][NextMobile]_vars

(***************************************************************************)
(* twilio_sms.py: the TwilioSMSService, with its own MobileSessionManager  *)
(* (mapping M, store MS) and its own AIChatbot (store S)                   *)
(***************************************************************************)
\* the senders of SpecSms
SmsNumbers == {RawTen, RawOtherPlus}

\* the str f"{digits_only}_{hash_part}" of a mobile session id: one name for the id
\* of each sender
session_id_text(id) ==
    IF id = generate_mobile_session_id(normalize_mobile_number(RawTen)) THEN "m1"
    ELSE IF id = generate_mobile_session_id(normalize_mobile_number(RawOtherPlus)) THEN "m2"
    ELSE "m0"

\* add_message_to_mobile_session(mobile_number, message_type, content)
add_message_to_mobile_session(M, MS, mobile_number, message_type, content) ==
    LET g == get_or_create_session_for_mobile(M, MS, mobile_number)
    IN  [mobile_to_session |-> g.mobile_to_session,
         sessions |-> add_message_to_history(g.sessions, g.session_id, message_type, content)]

\* is_mobile_in_appointment_booking(mobile_number): is_in_appointment_booking of the
\* manager's own SessionManager
is_mobile_in_appointment_booking(M, MS, mobile_number) ==
    LET g == get_or_create_session_for_mobile(M, MS, mobile_number)
    IN  [mobile_to_session |-> g.mobile_to_session, sessions |-> g.sessions,
         result |-> g.sessions[g.session_id].appointment_state.is_booking]

\* _get_organization_prompt_type(org_type)
get_organization_prompt_type(org_type) ==
    IF org_type = "SMB" THEN "SMB" ELSE IF org_type = "HRH" THEN "HRH" ELSE "SMB"

TechnicalDifficultiesText == <<"I apologize, but I'm experiencing technical difficulties. Please try again later.">>

\* process_message_with_chatbot(mobile_number, message, organization_type)
process_message_with_chatbot(M, MS, S, mobile_number, message, organization_type, llm) ==
    LET g == get_or_create_session_for_mobile(M, MS, mobile_number)
        u == add_message_to_mobile_session(g.mobile_to_session, g.sessions,
                                           mobile_number, "user", message)
        chat_request == [message |-> message, session_id |-> session_id_text(g.session_id),
                         organization_type |-> get_organization_prompt_type(organization_type)]
        chat == process_message(S, chat_request, llm, session_id_text(g.session_id))
        a == add_message_to_mobile_session(u.mobile_to_session, u.sessions,
                                           mobile_number, "assistant", chat.response.response)
        b == is_mobile_in_appointment_booking(a.mobile_to_session, a.sessions, mobile_number)
    IN  IF chat.raised
        THEN [mobile_to_session |-> u.mobile_to_session, mobile_sessions |-> u.sessions,
              sessions |-> chat.sessions, chat_request |-> chat_request, chat |-> chat,
              mobile_session_id |-> g.session_id,
              chatbot_response |-> TechnicalDifficultiesText,
              escalation_type |-> "human_escalation",
              appointment_booking |-> FALSE,
              in_appointment_booking |-> FALSE]
        ELSE [mobile_to_session |-> b.mobile_to_session, mobile_sessions |-> b.sessions,
              sessions |-> chat.sessions, chat_request |-> chat_request, chat |-> chat,
              mobile_session_id |-> g.session_id,
              chatbot_response |-> chat.response.response,
              escalation_type |-> chat.response.escalation_type,
              appointment_booking |-> chat.response.appointment_escalation,
              in_appointment_booking |-> b.result]

\* mutant: when the delivery fails the stores are put back as they were before the call
send_sms_outcome_RollsBack(M, MS, S, p, configured, delivered) ==
    IF ~configured
    THEN [mobile_to_session |-> M, mobile_sessions |-> MS, sessions |-> S, raised |-> "config"]
    ELSE IF ~delivered
    THEN [mobile_to_session |-> M, mobile_sessions |-> MS, sessions |-> S, raised |-> "twilio"]
    ELSE [mobile_to_session |-> p.mobile_to_session, mobile_sessions |-> p.mobile_sessions,
          sessions |-> p.sessions, raised |-> "none"]

\* what send_sms leaves and raises: p is the outcome of process_message_with_chatbot,
\* which runs before self.twilio_client.messages.create; configured is the result of
\* the two checks made first, delivered whether create returned
send_sms_outcome(M, MS, S, p, configured, delivered) ==
    IF ~configured
    THEN [mobile_to_session |-> M, mobile_sessions |-> MS, sessions |-> S, raised |-> "config"]
    ELSE [mobile_to_session |-> p.mobile_to_session, mobile_sessions |-> p.mobile_sessions,
          sessions |-> p.sessions, raised |-> IF delivered THEN "none" ELSE "twilio"]

(***************************************************************************)
(* The SMS service, with the Twilio settings present (config is read once, *)
(* in __init__): messages of two senders, sessions cleared between them    *)
(***************************************************************************)
SendSms(mobile_number, message, organization_type, llm, configured, delivered) ==
    /\ nmsgs < MaxSmsMsgs
    /\ \E p \in {process_message_with_chatbot(mobile_to_session, mobile_sessions, sessions,
                                                mobile_number, message, organization_type, llm)} :
       LET r == send_sms_outcome(mobile_to_session, mobile_sessions, sessions, p,
                                 configured, delivered)
           id == p.chat_request.session_id
       IN  /\ mobile_to_session' = r.mobile_to_session
           /\ mobile_sessions' = r.mobile_sessions
           /\ sessions' = r.sessions
           /\ slast' = [op |-> "send_sms", mobile_number |-> mobile_number, message |-> message,
                        session_id |-> id, pre |-> SessionOf(sessions, id),
                        raised |-> r.raised,
                        chatbot_response |-> p.chatbot_response,
                        appointment_booking |-> p.appointment_booking,
                        in_appointment_booking |-> p.in_appointment_booking]
           /\ IF configured
              THEN /\ last' = [op |-> "process_message", request |-> p.chat_request,
                               existed |-> id \in DOMAIN sessions,
                               pre |-> SessionOf(sessions, id),
                               response |-> p.chat.response, classified |-> p.chat.classified,
                               llm_calls |-> p.chat.llm_calls,
                               llm |-> IF p.chat.llm_calls = <<>> THEN NoLlm ELSE llm,
                               raised |-> p.chat.raised, result |-> FALSE]
                   /\ mlast' = [op |-> "is_mobile_in_appointment_booking",
                                mobile_number |-> mobile_number,
                                mapped |-> normalize_mobile_number(mobile_number) \in DOMAIN mobile_to_session,
                                seen |-> mobile_number \in DOMAIN returned,
                                session_id |-> p.mobile_session_id,
                                result |-> p.in_appointment_booking]
              ELSE UNCHANGED <<last, mlast>>
    /\ nmsgs' = nmsgs + 1
    /\ UNCHANGED <<returned, nops>>

\* clear_mobile_session(mobile_number) of the service's MobileSessionManager
ClearMobileSessionOfService(mobile_number) ==
    /\ mlast.op # "clear"
    /\ LET r == clear_mobile_session(mobile_to_session, mobile_sessions, mobile_number)
       IN  /\ mobile_to_session' = r.mobile_to_session
           /\ mobile_sessions' = r.sessions
           /\ mlast' = [op |-> "clear", mobile_number |-> mobile_number,
                        mapped |-> normalize_mobile_number(mobile_number) \in DOMAIN mobile_to_session,
                        seen |-> mobile_number \in DOMAIN returned,
                        session_id |-> NoKey, result |-> r.result]
    /\ UNCHANGED <<chatVars, returned, nops, slast>>

NextSms ==
    \/ \E mobile_number \in SmsNumbers, message \in FullMessages, llm \in LlmOutcomes,
          delivered \in BOOLEAN :
          /\ SendSms(mobile_number, message, "HRH", llm, TRUE, delivered)
          /\ UNCHANGED <<histVars, engineVars, taskVars, botVars, logVars>>
    \/ \E mobile_number \in SmsNumbers :
          /\ ClearMobileSessionOfService(mobile_number)
          /\ UNCHANGED <<histVars, engineVars, taskVars, botVars, logVars>>

SpecSms == Init /\ [][NextSms]_vars

(***************************************************************************)
(* The standalone SMS bot: messages of two phone numbers                   *)
(***************************************************************************)
BotNumbers == {RawEleven, RawOtherPlus}

GetChatbotResponse(user_message, phone_number, completion) ==
    /\ nbot < MaxBotMsgs
    /\ LET r == get_chatbot_response(conversation_history, user_message, phone_number, completion)
       IN  /\ conversation_history' = r.conversation_history
           /\ blast' = [op |-> "get_chatbot_response", phone_number |-> phone_number,
                        messages |-> r.messages, ok |-> completion.ok, reply |-> r.reply]
    /\ nbot' = nbot + 1

NextBot ==
    \E phone_number \in BotNumbers, completion \in LlmOutcomes :
        /\ GetChatbotResponse(MsgStop, phone_number, completion)
        /\ UNCHANGED <<chatVars, histVars, mobileVars, engineVars, taskVars, smsVars, logVars>>

SpecBot == Init /\ [][NextBot]_vars

(***************************************************************************)
(* The webhook log: entries are added with the serial number of the call   *)
(* as message sid; up to the cap their status is fixed, after it any       *)
(***************************************************************************)
\* the limits the endpoint passes on: Query(50, ge=1, le=1000)
LogLimits == {1, 2, 50, LogCap}

LogNumber == <<"+","1","4","1","5","5","5","5","0","1","0","0">>

AddWebhookLog(status) ==
    /\ nlogs < LogCap + MaxLogExtra
    /\ (nlogs < LogCap - 1) => status = "delivered"
    /\ webhook_logs' = add_webhook_log(webhook_logs,
                                       log_entry(nlogs + 1, status, LogNumber, LogNumber))
    /\ wlast' = [op |-> "add_webhook_log", limit |-> 0, pre |-> <<>>, result |-> <<>>]
    /\ nlogs' = nlogs + 1

GetRecentLogs(limit) ==
    /\ wlast' = [op |-> "get_recent_logs", limit |-> limit, pre |-> <<>>,
                 result |-> get_recent_logs(webhook_logs, limit)]
    /\ UNCHANGED <<webhook_logs, nlogs>>

NextLogs ==
    \/ \E status \in LogStatuses :
          AddWebhookLog(status)
          /\ UNCHANGED <<chatVars, histVars, mobileVars, engineVars, taskVars, smsVars, botVars>>
    \/ \E limit \in LogLimits :
          GetRecentLogs(limit)
          /\ UNCHANGED <<chatVars, histVars, mobileVars, engineVars, taskVars, smsVars, botVars>>

SpecLogs == Init /\ [][NextLogs]_vars

(***************************************************************************)
(* The history of one session under add_message_to_history.  The session   *)
(* first receives the turns of a fixed conversation (ScriptedTurn), then   *)
(* turns of any type and content.                                          *)
(***************************************************************************)
HistSession == "h1"
TurnTypes == {"human", "ai"}
FreeContents == {MsgStop, MsgNone}

\* the i-th turn of the fixed conversation: the speakers alternate, every text differs
ScriptedTurn(i) ==
    [type |-> IF i % 2 = 1 THEN "human" ELSE "ai", content |-> [j \in 1..i |-> "x"]]

FreeCount == Cardinality({i \in 1..Len(appended) : appended[i].content \in FreeContents})

AddMessageToHistory(message_type, content) ==
    /\ hist' = add_message_to_history(hist, HistSession, message_type, content)
    /\ appended' = Append(appended, [type |-> message_type, content |-> content])

NextHist ==
    \/ /\ FreeCount = 0
       /\ Len(appended) < HistoryCap
       /\ LET turn == ScriptedTurn(Len(appended) + 1)
          IN  AddMessageToHistory(turn.type, turn.content)
       /\ UNCHANGED <<chatVars, mobileVars, engineVars, taskVars, edgeVars>>
    \/ \E message_type \in TurnTypes, content \in FreeContents :
          /\ FreeCount < MaxAppends
          /\ AddMessageToHistory(message_type, content)
          /\ UNCHANGED <<chatVars, mobileVars, engineVars, taskVars, edgeVars>>

SpecHist == Init /\ [][NextHist]_vars

(***************************************************************************)
(* The AppointmentBookingSystem alone: its methods called on a state that  *)
(* the caller hands over, which need not come from start_booking           *)
(***************************************************************************)
MsgBlank == <<" ", " ">>
MsgNoPreference == <<"N","o"," ","P","r","e","f","e","r","e","n","c","e">>
MsgOnsite == <<"o","n","s","i","t","e">>

\* texts handed to process_answer
EngineMessages == {MsgNone, MsgBlank, MsgNoPreference, MsgOnsite}

\* states a caller hands over first: a new AppointmentState(), and states with the
\* booking flag set at an index that has no question
EngineStates0 ==
    {AppointmentState0}
    \cup {[is_booking |-> TRUE, current_question |-> i, answers |-> <<>>] :
             i \in NQuestions..(NQuestions + 1)}

EngineInit ==
    /\ ChatInit /\ HistInit0 /\ MobileInit0 /\ TaskInit0
    /\ SmsInit0 /\ BotInit0 /\ LogInit0
    /\ appt \in EngineStates0
    /\ elast = NoEngineCall

StartBooking ==
    /\ appt' = start_booking.state
    /\ elast' = [op |-> "start_booking", message |-> <<>>, pre |-> appt,
                 response |-> start_booking.response, is_complete |-> FALSE]

ProcessAnswer(user_message) ==
    LET p == process_answer(user_message, appt)
    IN  /\ appt' = p.state
        /\ elast' = [op |-> "process_answer", message |-> user_message, pre |-> appt,
                     response |-> p.response, is_complete |-> p.is_complete]

CancelBooking ==
    LET c == cancel_booking(appt)
    IN  /\ appt' = c.state
        /\ elast' = [op |-> "cancel_booking", message |-> <<>>, pre |-> appt,
                     response |-> c.response, is_complete |-> FALSE]

NextEngine ==
    \/ StartBooking /\ UNCHANGED <<chatVars, histVars, mobileVars, taskVars, edgeVars>>
    \/ \E user_message \in EngineMessages :
          ProcessAnswer(user_message) /\ UNCHANGED <<chatVars, histVars, mobileVars, taskVars, edgeVars>>
    \/ CancelBooking /\ UNCHANGED <<chatVars, histVars, mobileVars, taskVars, edgeVars>>

SpecEngine == EngineInit /\ [][NextEngine]_vars

(***************************************************************************)
(* A session that books twice: a first booking with fixed messages, then   *)
(* any messages                                                            *)
(***************************************************************************)
\* the first booking: the request, then "onsite" as the answer to each question
RebookScript == <<MsgVisit, MsgOnsite, MsgOnsite, MsgOnsite, MsgOnsite, MsgOnsite, MsgOnsite>>

NextRebook ==
    \/ /\ nmsgs < Len(RebookScript)
       /\ ProcessMessage("s1", RebookScript[nmsgs + 1], "HRH", LlmReply, "u1")
       /\ UNCHANGED <<histVars, mobileVars, engineVars, taskVars, edgeVars>>
    \/ \E message \in FullMessages, llm \in LlmOutcomes :
          /\ nmsgs >= Len(RebookScript)
          /\ nmsgs < Len(RebookScript) + MaxRebookMsgs
          /\ ProcessMessage("s1", message, "HRH", llm, "u1")
          /\ UNCHANGED <<histVars, mobileVars, engineVars, taskVars, edgeVars>>

SpecRebook == Init /\ [][NextRebook]_vars

(***************************************************************************)
(* Properties.  They read the last call (last), the session it was made on *)
(* before the call (last.pre) and the same session after it (Cur).         *)
(***************************************************************************)
IsCall == last.op = "process_message"
Req == last.request
Resp == last.response
Pre == last.pre
LastId == IF last.op = "process_message" THEN last.response.session_id ELSE last.request.session_id
Cur == SessionOf(sessions, LastId)
PreAppt == last.pre.appointment_state
CurAppt == Cur.appointment_state

\* t is text m without its leading and trailing whitespace
IsTrimOf(t, m) ==
    /\ \E lo \in 1..(Len(m) + 1), hi \in 0..Len(m) :
          /\ t = SubSeq(m, lo, hi)
          /\ \A i \in 1..Len(m) : (i < lo \/ i > hi) => IsSpace(m[i])
    /\ t # <<>> => (~IsSpace(t[1]) /\ ~IsSpace(t[Len(t)]))

\* message m contains keyword k, letter case ignored
MentionsKeyword(m, keywords) ==
    \E k \in keywords : \E i \in 0..(Len(m) - Len(k)) :
        \A j \in 1..Len(k) : LowerChar(m[i + j]) = k[j]

QuestionKey(i) == APPOINTMENT_QUESTIONS[i + 1].key
QuestionKeys(n) == {QuestionKey(i) : i \in 0..(n - 1)}
RequiredKeys == {APPOINTMENT_QUESTIONS[i].key : i \in {j \in 1..NQuestions : APPOINTMENT_QUESTIONS[j].required}}

\* a call handled as an answer of the booking in progress
AnswerCall == IsCall /\ PreAppt.is_booking /\ ~MentionsKeyword(Req.message, cancel_keywords)
\* a call handled as the cancellation of the booking in progress
CancelCall == IsCall /\ PreAppt.is_booking /\ MentionsKeyword(Req.message, cancel_keywords)
\* a call that started a booking
StartCall == IsCall /\ ~PreAppt.is_booking /\ CurAppt.is_booking

\* C1: a booking started and answered N = 6 times without a cancellation phrase
\* yields the prompt of question 0, then the prompt of question i+1 on the answer
\* to question i < N-1, then one confirmation on the N-th answer; each answer is
\* recorded as its trimmed text, the confirmation contains every required answer,
\* and the session is not booking afterwards.
C1_BookingRunsToConfirmation ==
    /\ StartCall =>
          /\ Resp.response = StartPreamble \o APPOINTMENT_QUESTIONS[1].question
          /\ CurAppt.current_question = 0
    /\ (IsCall /\ PreAppt.is_booking) =>
          /\ PreAppt.current_question < NQuestions
          /\ DOMAIN PreAppt.answers = QuestionKeys(PreAppt.current_question)
    /\ AnswerCall =>
          LET i == PreAppt.current_question
          IN  /\ CurAppt.current_question = i + 1
              /\ DOMAIN CurAppt.answers = QuestionKeys(i + 1)
              /\ IsTrimOf(CurAppt.answers[QuestionKey(i)], Req.message)
              /\ \A k \in DOMAIN PreAppt.answers : CurAppt.answers[k] = PreAppt.answers[k]
              /\ (i + 1 < NQuestions) =>
                    /\ Resp.response = NextQuestionPreamble \o APPOINTMENT_QUESTIONS[i + 2].question
                    /\ CurAppt.is_booking
              /\ (i + 1 = NQuestions) =>
                    /\ ~CurAppt.is_booking
                    /\ Head(Resp.response) = "Perfect! Here's a summary of your appointment request:\n\n"
                    /\ \A k \in RequiredKeys : Contains(Resp.response, CurAppt.answers[k])

\* a booking completed whose answers were sent with surrounding blanks and in mixed case
C1_Witness ==
    /\ AnswerCall
    /\ PreAppt.current_question = NQuestions - 1
    /\ ~CurAppt.is_booking
    /\ CurAppt.answers["purpose"] = <<"H","e","l","p"," ","b","o","o","k">>
    /\ CurAppt.answers["format"] = <<"N","o","n","e">>
    /\ CurAppt.answers["time"] = MsgVisit

\* C2: a cancellation phrase sent at any question index of a booking is not
\* recorded as an answer: the session becomes non-booking with index 0 and an
\* empty answer map; a booking started afterwards begins at question 0 with an
\* empty answer map, and a booking in progress holds answers for the questions
\* asked since its own start only.
C2_CancelResetsAndRestartIsClean ==
    /\ CancelCall =>
          /\ CurAppt = [is_booking |-> FALSE, current_question |-> 0, answers |-> <<>>]
          /\ Resp.response = CancelText
    /\ StartCall =>
          /\ CurAppt.current_question = 0
          /\ CurAppt.answers = <<>>
    /\ (IsCall /\ CurAppt.is_booking) =>
          DOMAIN CurAppt.answers = QuestionKeys(CurAppt.current_question)

HistoryHas(history, content) == \E i \in 1..Len(history) : history[i].content = content

\* a booking started again after a booking with recorded answers was cancelled
C2_Witness ==
    /\ StartCall
    /\ HistoryHas(Pre.conversation_history, CancelText)
    /\ HistoryHas(Pre.conversation_history, NextQuestionPreamble \o APPOINTMENT_QUESTIONS[2].question)
    /\ CurAppt.answers = <<>>

\* C3: when the session is not booking and the message contains a human-escalation
\* keyword, with or without appointment keywords, the response is the fixed
\* emergency text with escalation type human and requires_review true, the
\* appointment state stays non-booking and the language model is not called.
C3_HumanEscalationWins ==
    (IsCall /\ ~PreAppt.is_booking /\ MentionsKeyword(Req.message, HUMAN_ESCALATION_KEYWORDS)) =>
        /\ Resp.response = EmergencyText
        /\ Resp.escalation_type = "human_escalation"
        /\ Resp.human_escalation
        /\ ~Resp.appointment_escalation
        /\ Resp.requires_review
        /\ ~CurAppt.is_booking
        /\ CurAppt = PreAppt
        /\ last.llm_calls = <<>>

\* a message with a human keyword and an appointment keyword, session not booking
C3_Witness ==
    /\ IsCall
    /\ ~PreAppt.is_booking
    /\ MentionsKeyword(Req.message, HUMAN_ESCALATION_KEYWORDS)
    /\ MentionsKeyword(Req.message, APPOINTMENT_ESCALATION_KEYWORDS)
    /\ Resp.requires_review

\* C4: while the session is booking the message is not passed to the escalation
\* classifier; it is recorded as the answer to the current question or treated as
\* a cancellation, and the response has neither escalation type human nor
\* requires_review.
C4_BookingBypassesClassifier ==
    (IsCall /\ PreAppt.is_booking) =>
        /\ ~last.classified
        /\ Resp.escalation_type # "human_escalation"
        /\ ~Resp.human_escalation
        /\ ~Resp.requires_review
        /\ IF MentionsKeyword(Req.message, cancel_keywords)
           THEN ~CurAppt.is_booking /\ CurAppt.answers = <<>>
           ELSE /\ QuestionKey(PreAppt.current_question) \in DOMAIN CurAppt.answers
                /\ IsTrimOf(CurAppt.answers[QuestionKey(PreAppt.current_question)], Req.message)

\* a message with a human keyword recorded as a booking answer
C4_Witness ==
    /\ AnswerCall
    /\ MentionsKeyword(Req.message, HUMAN_ESCALATION_KEYWORDS)
    /\ ~MentionsKeyword(Req.message, APPOINTMENT_ESCALATION_KEYWORDS)
    /\ CurAppt.answers[QuestionKey(PreAppt.current_question)] = Req.message

\* history `after` is history `before` with `turns` added at its end, the oldest turns
\* dropped when that makes more than 20
GrewBy(before, after, turns) ==
    LET all == before \o turns
        drop == IF Len(all) > HistoryCap THEN Len(all) - HistoryCap ELSE 0
    IN  /\ Len(after) = Len(all) - drop
        /\ \A i \in 1..Len(after) : after[i] = all[i + drop]

\* C5: when the session is not booking and the message has an appointment keyword
\* and no human keyword, the persisted state is (booking, index 0, no answers),
\* exactly the assistant turn is appended to the history, and the response is the
\* question-0 prompt with escalation type appointment.
C5_AppointmentKeywordStartsBooking ==
    (/\ IsCall
     /\ ~PreAppt.is_booking
     /\ MentionsKeyword(Req.message, APPOINTMENT_ESCALATION_KEYWORDS)
     /\ ~MentionsKeyword(Req.message, HUMAN_ESCALATION_KEYWORDS)) =>
        /\ CurAppt = [is_booking |-> TRUE, current_question |-> 0, answers |-> <<>>]
        /\ Resp.response = StartPreamble \o APPOINTMENT_QUESTIONS[1].question
        /\ Resp.escalation_type = "appointment_booking"
        /\ Resp.appointment_escalation
        /\ ~Resp.human_escalation
        /\ ~Resp.requires_review
        /\ GrewBy(Pre.conversation_history, Cur.conversation_history,
                  <<[type |-> "ai", content |-> Resp.response]>>)
        /\ last.llm_calls = <<>>

\* a booking started by an appointment-only message in a session that has history
C5_Witness ==
    /\ IsCall
    /\ ~PreAppt.is_booking
    /\ Req.message = MsgVisit
    /\ Len(Pre.conversation_history) >= 2
    /\ CurAppt.is_booking

\* the positions of the user-authored turns among the last 10 turns of history
ReplayedPositions(history) ==
    {i \in 1..Len(history) : i > Len(history) - ContextWindow /\ history[i].type = "human"}

\* C10: the list handed to the language model is the system prompt of the
\* organization type, then the user turns found among the last 10 turns of the
\* history stored before the call, in their order, then the current message once,
\* as the last element; the current message's turn is stored only after the list is
\* built, and the list has at most 12 messages.
C10_ContextHandedToModel ==
    (IsCall /\ last.llm_calls # <<>>) =>
        LET msgs == last.llm_calls[1]
            history == Pre.conversation_history
            pos == ReplayedPositions(history)
        IN  /\ Len(last.llm_calls) = 1
            /\ Len(msgs) = Cardinality(pos) + 2
            /\ Len(msgs) <= ContextWindow + 2
            /\ msgs[1].role = "system"
            /\ msgs[1].content = (IF Req.organization_type = "HRH"
                                  THEN HRH_SYSTEM_PROMPT ELSE SMB_SYSTEM_PROMPT)
            /\ msgs[Len(msgs)] = [role |-> "human", content |-> Req.message]
            /\ \A i \in pos :
                  LET rank == Cardinality({j \in pos : j <= i})
                  IN  msgs[1 + rank] = [role |-> "human", content |-> history[i].content]
            /\ GrewBy(history, Cur.conversation_history,
                      <<[type |-> "human", content |-> Req.message],
                        [type |-> "ai", content |-> Resp.response]>>)

\* a call of the model on a history longer than the window, holding both kinds of turn
C10_Witness ==
    /\ IsCall
    /\ last.llm_calls # <<>>
    /\ Len(Pre.conversation_history) > ContextWindow
    /\ Len(last.llm_calls[1]) >= 5
    /\ Len(last.llm_calls[1]) < ContextWindow + 2
    /\ Req.organization_type = "HRH"
    /\ last.llm_calls[1][2].content # last.llm_calls[1][3].content

(***************************************************************************)
(* Properties of the identity resolver.  returned[r] holds every key       *)
(* get_or_create_session_for_mobile has returned for raw identifier r.     *)
(***************************************************************************)
Separators == {" ", "(", ")", "-", "."}
IsNotSeparator(c) == c \notin Separators

\* raw identifier r without its separators
Unseparated(r) == SelectSeq(r, IsNotSeparator)
\* the digits of raw identifier r
BareDigits(r) == SelectSeq(r, IsDigit)

\* r1 and r2 differ only in separators, in the presence of a +, or in the presence
\* of the country code 1
SameNumber(r1, r2) ==
    \/ BareDigits(r1) = BareDigits(r2)
    \/ BareDigits(r1) = <<"1">> \o BareDigits(r2)
    \/ BareDigits(r2) = <<"1">> \o BareDigits(r1)

\* r has 10 national digits: 10 digits, or 11 digits led by the country code 1
TenNationalDigits(r) ==
    \/ Len(BareDigits(r)) = 10
    \/ Len(BareDigits(r)) = 11 /\ Head(BareDigits(r)) = "1"

\* C6 as stated: all identifiers that differ only in separators, in the presence of
\* a + or in the presence of the country code resolve to the same session key.
C6_Original ==
    \A r1 \in DOMAIN returned, r2 \in DOMAIN returned :
        SameNumber(r1, r2) => returned[r1] = returned[r2]

\* C6 (amended): identifiers that differ only in separators resolve to the same
\* session key; identifiers that differ in the presence of a + or of the country
\* code 1 resolve to the same session key when the number has 10 national digits.
C6_SameKeyForTenDigitNumbers ==
    \A r1 \in DOMAIN returned, r2 \in DOMAIN returned :
        (\/ Unseparated(r1) = Unseparated(r2)
         \/ SameNumber(r1, r2) /\ TenNationalDigits(r1) /\ TenNationalDigits(r2))
        => returned[r1] = returned[r2]

\* the 11-digit form and the bare 10-digit form of one number were both resolved
C6_Witness ==
    /\ RawEleven \in DOMAIN returned
    /\ RawTen \in DOMAIN returned
    /\ returned[RawEleven] = returned[RawTen]

\* the 10-digit national numbers of the model
NationalNumbers == {BareDigits(RawTen), BareDigits(RawOtherTen)}

\* the session key of 10-digit national number d: the digits of +1d and its fingerprint
KeyOfNational(d) == [digits |-> <<"1">> \o d, hash |-> Md5Hex16(<<"+","1">> \o d)]

\* C7: for a 10-digit national number d, the identifiers d, 1d and +1d, with any
\* separators inserted, all resolve to one session key, that of +1d.
C7_NationalFormsShareKey ==
    \A r \in DOMAIN returned : \A d \in NationalNumbers :
        (BareDigits(r) = d \/ BareDigits(r) = <<"1">> \o d) => returned[r] = {KeyOfNational(d)}

\* "+1 (415) 555-0100" and "14155550100" were both resolved
C7_Witness ==
    /\ RawPlusParens \in DOMAIN returned
    /\ RawEleven \in DOMAIN returned
    /\ returned[RawPlusParens] = returned[RawEleven]
    /\ Cardinality(DOMAIN mobile_to_session) = 1

\* C8: whatever calls are made in between (other numbers, clear_mobile_session),
\* get_or_create_session_for_mobile returns one and the same session key for a
\* given raw identifier.
C8_KeyStableOverLifetime ==
    \A r \in DOMAIN returned : Cardinality(returned[r]) = 1

\* an identifier resolved again after its mapping was cleared, another number mapped meanwhile
C8_Witness ==
    /\ mlast.op = "get_or_create"
    /\ mlast.seen
    /\ ~mlast.mapped
    /\ returned[mlast.mobile_number] = {mlast.session_id}
    /\ Cardinality(DOMAIN mobile_to_session) = 2

(***************************************************************************)
(* Properties of the history cap                                           *)
(***************************************************************************)
StoredHistory == SessionOf(hist, HistSession).conversation_history

\* C9: after any sequence of add_message_to_history calls on a session, its
\* history holds at most 20 turns and is the most recent min(n, 20) of the n
\* appended turns, in the order they were appended.
C9_HistoryKeepsLast20 ==
    LET n == Len(appended)
        m == IF n < 20 THEN n ELSE 20
    IN  /\ Len(StoredHistory) = m
        /\ \A i \in 1..m : StoredHistory[i] = appended[n - m + i]

\* more than 20 turns were appended, the last ones by either speaker
C9_Witness ==
    /\ Len(appended) >= 22
    /\ Len(StoredHistory) = 20
    /\ StoredHistory[20].type = StoredHistory[19].type
    /\ StoredHistory[1] = ScriptedTurn(3)

(***************************************************************************)
(* The general branch and its failure path                                 *)
(***************************************************************************)
\* a call that reached the general branch: no booking in progress, no keyword
GeneralCall ==
    /\ IsCall
    /\ ~PreAppt.is_booking
    /\ ~MentionsKeyword(Req.message, HUMAN_ESCALATION_KEYWORDS)
    /\ ~MentionsKeyword(Req.message, APPOINTMENT_ESCALATION_KEYWORDS)

UserTurn == [type |-> "human", content |-> Req.message]
AssistantTurn == [type |-> "ai", content |-> Resp.response]

\* C11: when the session is not booking, the message has no escalation keyword
\* and the model call does not fail, the model is called once, the user turn and
\* then the assistant turn are appended to the history, the appointment state is
\* unchanged, and the response is the model's text (without surrounding
\* whitespace) with escalation type none, no flag set and no review required.
C11_GeneralReplyStoresBothTurns ==
    (GeneralCall /\ last.llm # LlmException) =>
        /\ last.llm = LlmReply
        /\ Len(last.llm_calls) = 1
        /\ IsTrimOf(Resp.response, last.llm.content)
        /\ Resp.escalation_type = "none"
        /\ ~Resp.human_escalation
        /\ ~Resp.appointment_escalation
        /\ ~Resp.requires_review
        /\ CurAppt = PreAppt
        /\ GrewBy(Pre.conversation_history, Cur.conversation_history,
                  <<UserTurn, AssistantTurn>>)

\* the model answered a message of a session that already had turns in its history
C11_Witness ==
    /\ GeneralCall
    /\ last.llm = LlmReply
    /\ Pre.conversation_history # <<>>
    /\ Len(Cur.conversation_history) = Len(Pre.conversation_history) + 2
    /\ Resp.response = <<"o", "k">>

\* C12: when the model call fails, the response is the fixed fallback message
\* with escalation type human, the human flag and review required; the user turn
\* and then the fallback assistant turn are appended to the history and the
\* appointment state is unchanged.
C12_FailureFallsBack ==
    (GeneralCall /\ last.llm = LlmException) =>
        /\ Resp.response = FallbackText
        /\ Resp.escalation_type = "human_escalation"
        /\ Resp.human_escalation
        /\ ~Resp.appointment_escalation
        /\ Resp.requires_review
        /\ CurAppt = PreAppt
        /\ GrewBy(Pre.conversation_history, Cur.conversation_history,
                  <<UserTurn, [type |-> "ai", content |-> FallbackText]>>)

\* a failed model call in a session whose earlier booking was cancelled
C12_Witness ==
    /\ GeneralCall
    /\ last.llm = LlmException
    /\ Pre.conversation_history # <<>>
    /\ Cur.conversation_history[Len(Cur.conversation_history)].content = FallbackText
    /\ Cur.conversation_history[Len(Cur.conversation_history) - 1] = UserTurn

EscalationTypes == {"none", "human_escalation", "appointment_booking"}

\* C13: whatever the message, the session state and the outcome of the model
\* call, process_message leaves no exception to its caller: it returns a
\* response with a text, one of the three escalation types and the id of the
\* session it used, which is then in the store.
C13_ProcessMessageAlwaysReturns ==
    IsCall =>
        /\ ~last.raised
        /\ Resp.response # <<>>
        /\ Resp.escalation_type \in EscalationTypes
        /\ Resp.session_id = effective_session_id(Req, Resp.session_id)
        /\ Resp.session_id \in DOMAIN sessions

\* the model call raised and a response came back all the same
C13_Witness ==
    /\ IsCall
    /\ last.llm = LlmException
    /\ ~last.raised
    /\ Resp.response = FallbackText

(***************************************************************************)
(* Messages handled while a booking is in progress                         *)
(***************************************************************************)
\* a call handled by _handle_appointment_booking
BookingCall == IsCall /\ PreAppt.is_booking

\* C14 as stated: a message handled mid-booking appends the user's message and
\* the assistant's reply to the history.
C14_Original ==
    BookingCall =>
        GrewBy(Pre.conversation_history, Cur.conversation_history,
               <<UserTurn, AssistantTurn>>)

\* C14 (amended): a message handled mid-booking, answer or cancellation, appends
\* exactly one turn to the history, the assistant's reply; the user's message is
\* not appended (an answer is kept, stripped, in the answer map only).
C14_BookingAppendsReplyOnly ==
    BookingCall =>
        /\ GrewBy(Pre.conversation_history, Cur.conversation_history, <<AssistantTurn>>)
        /\ Resp.response \in {CancelText, generate_confirmation(CurAppt.answers)}
                             \cup {NextQuestionPreamble \o APPOINTMENT_QUESTIONS[i].question :
                                      i \in 2..NQuestions}
        /\ AnswerCall => CurAppt.answers[QuestionKey(PreAppt.current_question)]
                            = Strip(Req.message)

\* an answer with surrounding spaces was handled after the start of a booking
C14_Witness ==
    /\ AnswerCall
    /\ Req.message = MsgNone
    /\ Len(Cur.conversation_history) = Len(Pre.conversation_history) + 1
    /\ ~HistoryHas(Cur.conversation_history, MsgNone)

\* the message answered the last question
CompletedFlow == AnswerCall /\ PreAppt.current_question = NQuestions - 1

\* C15 as stated: a message handled mid-booking returns escalation type
\* appointment, except the one that completed the flow, which returns none.
C15_Original ==
    BookingCall =>
        Resp.escalation_type = (IF CompletedFlow THEN "none" ELSE "appointment_booking")

\* C15 (amended): a message handled mid-booking returns escalation type
\* appointment with the appointment flag set, except the message that completed
\* the flow and the message that cancelled it, which return none with no flag.
C15_BookingEscalationType ==
    BookingCall =>
        /\ Resp.escalation_type =
              (IF CompletedFlow \/ CancelCall THEN "none" ELSE "appointment_booking")
        /\ Resp.appointment_escalation = (Resp.escalation_type = "appointment_booking")
        /\ ~Resp.human_escalation
        /\ ~Resp.requires_review

\* the last question was answered and the confirmation returned
C15_Witness ==
    /\ CompletedFlow
    /\ Resp.escalation_type = "none"
    /\ Resp.response = generate_confirmation(CurAppt.answers)

\* C16: in the human-escalation branch exactly one turn is appended to the
\* history, the assistant's emergency message; the user's message is not
\* appended.
C16_HumanBranchAppendsOneTurn ==
    (/\ IsCall
     /\ ~PreAppt.is_booking
     /\ MentionsKeyword(Req.message, HUMAN_ESCALATION_KEYWORDS)) =>
        /\ Resp.response = EmergencyText
        /\ GrewBy(Pre.conversation_history, Cur.conversation_history,
                  <<[type |-> "ai", content |-> EmergencyText]>>)
        /\ CurAppt = PreAppt

\* an emergency message in a session with history: one more turn, none of the user
C16_Witness ==
    /\ IsCall
    /\ Resp.escalation_type = "human_escalation"
    /\ Resp.response = EmergencyText
    /\ Pre.conversation_history # <<>>
    /\ Len(Cur.conversation_history) = Len(Pre.conversation_history) + 1
    /\ ~HistoryHas(Cur.conversation_history, Req.message)

(***************************************************************************)
(* The appointment state kept in the store                                 *)
(***************************************************************************)
\* C17: in every stored session the question index is between 0 and the number
\* of questions, and below it while is_booking is set, so process_message never
\* returns the out-of-range (or the not-booking) diagnostic of process_answer.
C17_QuestionIndexInRange ==
    /\ \A id \in DOMAIN sessions :
          LET a == sessions[id].appointment_state
          IN  /\ a.current_question \in 0..NQuestions
              /\ a.is_booking => a.current_question < NQuestions
    /\ IsCall => Resp.response \notin {OutOfRangeText, NotBookingText}

\* a completed booking: the stored index is the number of questions, flag cleared
C17_Witness ==
    /\ CompletedFlow
    /\ CurAppt.current_question = NQuestions
    /\ ~CurAppt.is_booking

\* C18 as stated: answering the last question leaves the stored appointment
\* state reset as on cancellation (not booking, index 0, no answers), and every
\* stored state that is not booking has index 0 and no answers.
C18_Original ==
    /\ CompletedFlow => CurAppt = AppointmentState0
    /\ \A id \in DOMAIN sessions :
          LET a == sessions[id].appointment_state
          IN  ~a.is_booking => (a.current_question = 0 /\ a.answers = <<>>)

(***************************************************************************)
(* The session store                                                       *)
(***************************************************************************)
EmptyDefaults ==
    [appointment_state |-> [is_booking |-> FALSE, current_question |-> 0, answers |-> <<>>],
     conversation_history |-> <<>>]

\* the step is a call of clear_session_memory
ClearStep == last.op # "clear_session" /\ last'.op = "clear_session"
\* the step is a call of process_message
MessageStep == nmsgs' = nmsgs + 1

\* C19: clear_session(key) returns true exactly when a session for key was
\* stored; it then removes that session and no other; on an absent key it
\* returns false and leaves the store as it was; a get_session(key) after the
\* call yields a session with empty defaults.
C19_ClearSession ==
    [][ClearStep =>
          LET key == last'.request.session_id
          IN  /\ last'.result = (key \in DOMAIN sessions)
              /\ DOMAIN sessions' = (DOMAIN sessions) \ {key}
              /\ \A x \in DOMAIN sessions' : sessions'[x] = sessions[x]
              /\ key \notin DOMAIN sessions => sessions' = sessions
              /\ key \notin DOMAIN sessions'
              /\ get_session(sessions', key)[key] = EmptyDefaults]_vars

\* a session with history was cleared while another session stayed in the store
C19_Witness ==
    /\ last.op = "clear_session"
    /\ last.result
    /\ last.pre.conversation_history # <<>>
    /\ last.request.session_id \notin DOMAIN sessions
    /\ \E x \in DOMAIN sessions : sessions[x].conversation_history # <<>>

\* C20: process_message works on the session stored under its session id, a
\* session with empty defaults when the id is referenced for the first time;
\* what it leaves is stored under the id it returns, and the sessions of other
\* ids are untouched, so a later message that carries a returned id meets the
\* appointment state and the history left by the earlier messages.
C20_SessionPersistsAcrossMessages ==
    [][MessageStep =>
          LET id == last'.response.session_id
              old == IF id \in DOMAIN sessions THEN sessions[id] ELSE EmptyDefaults
              new == sessions'[id]
          IN  /\ id \in DOMAIN sessions'
              /\ last'.existed = (id \in DOMAIN sessions)
              /\ last'.pre = old
              /\ old.appointment_state.is_booking => ~last'.classified
              /\ \E n \in 1..2 :
                    /\ Len(new.conversation_history) >= n
                    /\ GrewBy(old.conversation_history, new.conversation_history,
                              SubSeq(new.conversation_history,
                                     Len(new.conversation_history) - n + 1,
                                     Len(new.conversation_history)))
              /\ \A x \in (DOMAIN sessions) \ {id} :
                    x \in DOMAIN sessions' /\ sessions'[x] = sessions[x]]_vars

\* a message carrying a generated id answered the first question of the booking
\* that an earlier message of that session had started
C20_Witness ==
    /\ IsCall
    /\ Req.session_id \in GeneratedIds
    /\ Resp.session_id = Req.session_id
    /\ last.existed
    /\ PreAppt.is_booking
    /\ Pre.conversation_history # <<>>
    /\ CurAppt.current_question = 1
    /\ Cardinality(DOMAIN sessions) > 1

(***************************************************************************)
(* The booking flow engine                                                 *)
(***************************************************************************)
\* text t occurs in text s as a run of consecutive tokens
HasRun(s, t) ==
    \E i \in 0..(Len(s) - Len(t)) : SubSeq(s, i + 1, i + Len(t)) = t

SpecialistLabel == <<"Preferred specialist: ">>
FormatLabel == <<"Format: ">>

\* process_answer returned the confirmation summary
ConfirmationCall == elast.op = "process_answer" /\ elast.is_complete

\* C21: the confirmation summary has the preferred-specialist line exactly when
\* the specialist answer, trimmed, is not empty and its lower-cased form is none
\* of "no preference", "no", "none"; the line then carries the trimmed answer,
\* and the format line is there in either case.
C21_SpecialistLineOnlyForPreference ==
    ConfirmationCall =>
        LET trimmed == Strip(elast.message)
            wanted == /\ trimmed # <<>>
                      /\ Lower(trimmed) \notin
                            { <<"n","o"," ","p","r","e","f","e","r","e","n","c","e">>,
                              <<"n","o">>, <<"n","o","n","e">> }
        IN  /\ HasRun(elast.response, SpecialistLabel) = wanted
            /\ wanted => HasRun(elast.response, SpecialistLabel \o trimmed \o <<"\n">>)
            /\ HasRun(elast.response, FormatLabel \o appt.answers["format"] \o <<"\n">>)

\* "onsite" then "No Preference": a summary with the format line, no specialist line
C21_Witness ==
    /\ ConfirmationCall
    /\ elast.message = MsgNoPreference
    /\ appt.answers["format"] = MsgOnsite
    /\ HasRun(elast.response, FormatLabel \o MsgOnsite)
    /\ ~HasRun(elast.response, SpecialistLabel)

\* process_answer was called on a state outside the flow
MisuseCall ==
    /\ elast.op = "process_answer"
    /\ (~elast.pre.is_booking \/ elast.pre.current_question >= NQuestions)

\* C24: process_answer called with is_booking false, or with a question index
\* that has no question, returns a diagnostic text with is_complete false and
\* hands back the state it was given: flag, index and answers unchanged.
C24_MisuseIsReportedAsValue ==
    MisuseCall =>
        /\ elast.response = (IF ~elast.pre.is_booking THEN NotBookingText ELSE OutOfRangeText)
        /\ ~elast.is_complete
        /\ appt = elast.pre

\* an answer handed to a completed flow, whose state still holds the six answers
C24_Witness ==
    /\ MisuseCall
    /\ ~elast.pre.is_booking
    /\ elast.pre.current_question = NQuestions
    /\ DOMAIN elast.pre.answers = QuestionKeys(NQuestions)
    /\ elast.response = NotBookingText

(***************************************************************************)
(* The identity resolver on identifiers with a + and on short identifiers  *)
(***************************************************************************)
KeptByCleaning(c) == c \in DigitChars \cup {"+"}
\* raw identifier r without every character that is neither a digit nor a +
DigitsAndPlus(r) == SelectSeq(r, KeptByCleaning)
HasPlus(r) == \E i \in 1..Len(r) : r[i] = "+"

\* C23 as stated: an identifier that contains a + is mapped under its cleaned
\* string (the + and the digits), whatever its number of digits.
C23_Original ==
    (mlast.op = "get_or_create" /\ HasPlus(mlast.mobile_number)) =>
        /\ DigitsAndPlus(mlast.mobile_number) \in DOMAIN mobile_to_session
        /\ mobile_to_session[DigitsAndPlus(mlast.mobile_number)] = mlast.session_id

\* C26 as stated: the session key stored for a normalized number is the digits of
\* that number with the fingerprint of that number, so two different normalized
\* numbers never have the same session key.
C26_Original ==
    /\ \A n \in DOMAIN mobile_to_session :
          mobile_to_session[n] = [digits |-> SelectSeq(n, IsDigit), hash |-> Md5Hex16(n)]
    /\ \A n1 \in DOMAIN mobile_to_session, n2 \in DOMAIN mobile_to_session :
          n1 # n2 => mobile_to_session[n1] # mobile_to_session[n2]

(***************************************************************************)
(* Branch selection and the fields of the response                         *)
(***************************************************************************)
\* C25: a message with a cancellation phrase and no escalation keyword, received
\* when the session is not booking, cancels nothing: the appointment state is
\* unchanged, the cancellation text is not returned, and the message is answered
\* through the model branch (one model call, both turns stored).
C25_CancelPhraseOutsideBooking ==
    (/\ GeneralCall
     /\ MentionsKeyword(Req.message, cancel_keywords)) =>
        /\ CurAppt = PreAppt
        /\ Resp.response # CancelText
        /\ Len(last.llm_calls) = 1
        /\ last.llm \in LlmOutcomes
        /\ Resp.response = (IF last.llm.ok THEN Strip(last.llm.content) ELSE FallbackText)
        /\ GrewBy(Pre.conversation_history, Cur.conversation_history,
                  <<UserTurn, AssistantTurn>>)

\* "Stop" sent after a completed booking: the six answers stay, the model answers
C25_Witness ==
    /\ GeneralCall
    /\ Req.message = MsgStop
    /\ PreAppt.current_question = NQuestions
    /\ CurAppt = PreAppt
    /\ Len(last.llm_calls) = 1

\* C27: the model is called at most once per process_message call, and only when
\* the session is not booking and the message has neither a human-escalation nor
\* an appointment keyword; the booking, human-escalation and appointment-start
\* branches never call it.
C27_ModelCalledOnlyInGeneralBranch ==
    IsCall =>
        /\ Len(last.llm_calls) <= 1
        /\ (last.llm_calls # <<>>) = GeneralCall
        /\ (last.llm = NoLlm) = (last.llm_calls = <<>>)

\* a message without any escalation keyword handled mid-booking, without the model
C27_Witness ==
    /\ BookingCall
    /\ ~MentionsKeyword(Req.message, HUMAN_ESCALATION_KEYWORDS)
    /\ ~MentionsKeyword(Req.message, APPOINTMENT_ESCALATION_KEYWORDS)
    /\ last.llm_calls = <<>>
    /\ HistoryHas(Pre.conversation_history, FallbackText)

\* C28: in every response the fields agree: the escalation type is human exactly
\* when human_escalation is set, exactly when requires_review is set; it is
\* appointment exactly when appointment_escalation is set; the two flags are
\* never both set.
C28_ResponseFieldsAgree ==
    IsCall =>
        /\ (Resp.escalation_type = "human_escalation") = Resp.human_escalation
        /\ Resp.human_escalation = Resp.requires_review
        /\ (Resp.escalation_type = "appointment_booking") = Resp.appointment_escalation
        /\ ~(Resp.human_escalation /\ Resp.appointment_escalation)
        /\ Resp.escalation_type \in EscalationTypes

\* the response of a failed model call, in a session that completed a booking
C28_Witness ==
    /\ IsCall
    /\ last.llm = LlmException
    /\ Resp.requires_review
    /\ Resp.escalation_type = "human_escalation"
    /\ PreAppt.current_question = NQuestions

\* C29: after every process_message call the appointment_escalation flag of the
\* response equals the is_booking flag stored for the session: it is set exactly
\* when the next message of the session will be handled as a booking answer.
C29_AppointmentFlagIsBookingFlag ==
    IsCall => Resp.appointment_escalation = CurAppt.is_booking

\* a cancellation: the flag of the response and the stored flag are both cleared
C29_Witness ==
    /\ CancelCall
    /\ PreAppt.current_question > 0
    /\ ~Resp.appointment_escalation
    /\ ~CurAppt.is_booking

\* the step is a process_message call on session id, which was booking
BookingStep(id) ==
    /\ MessageStep
    /\ last'.response.session_id = id
    /\ id \in DOMAIN sessions
    /\ sessions[id].appointment_state.is_booking

\* C30: once a booking is started, every message of the session either cancels
\* it or records one answer and moves the question index up by exactly one; the
\* index of a session that is booking is below N = 6, so the session leaves
\* booking mode after at most 6 further messages (at the 6th answer at the latest).
C30_BookingAdvancesByOne ==
    /\ [](\A id \in DOMAIN sessions :
             sessions[id].appointment_state.is_booking =>
                 sessions[id].appointment_state.current_question \in 0..(NQuestions - 1))
    /\ [][\A id \in SessionIds :
             BookingStep(id) =>
                 LET old == sessions[id].appointment_state
                     new == sessions'[id].appointment_state
                 IN  \/ /\ MentionsKeyword(last'.request.message, cancel_keywords)
                        /\ ~new.is_booking
                     \/ /\ ~MentionsKeyword(last'.request.message, cancel_keywords)
                        /\ new.current_question = old.current_question + 1
                        /\ DOMAIN new.answers = (DOMAIN old.answers) \cup {QuestionKey(old.current_question)}
                        /\ \A k \in DOMAIN old.answers :
                              k # QuestionKey(old.current_question) => new.answers[k] = old.answers[k]
                        /\ new.is_booking = (new.current_question < NQuestions)]_vars

\* the sixth answer: index 5 to 6, the session leaves booking mode
C30_Witness ==
    /\ AnswerCall
    /\ PreAppt.current_question = NQuestions - 1
    /\ CurAppt.current_question = NQuestions
    /\ ~CurAppt.is_booking


(***************************************************************************)
(* Overlapping calls on one session                                        *)
(***************************************************************************)
\* the answers recorded are those of the questions below the index
IndexMatchesAnswers(state) ==
    DOMAIN state.answers = QuestionKeys(state.current_question)

\* the last n turns of a sequence of turns
LastTurns(turns, n) ==
    IF Len(turns) > n THEN SubSeq(turns, Len(turns) - n + 1, Len(turns)) ELSE turns

\* some session has an index that does not match its answers
IndexCorrupted ==
    \E id \in DOMAIN sessions : ~IndexMatchesAnswers(sessions[id].appointment_state)

\* some turn that was appended is missing from the history (the cap aside)
TurnDropped ==
    \E id \in SessionIds :
        SessionOf(sessions, id).conversation_history # LastTurns(appended, HistoryCap)

StoredReplies == {Strip(o.content) : o \in {x \in LlmOutcomes : x.ok}} \cup {FallbackText}

\* in history h every "human" turn is followed at once by an "ai" turn
HumanTurnsAnswered(h) ==
    \A i \in 1..Len(h) :
        h[i].type = "human" =>
            /\ i < Len(h)
            /\ h[i + 1].type = "ai"
            /\ h[i + 1].content \in StoredReplies

\* C36: in the chatbot history every "human" turn is immediately followed by the
\* "ai" turn produced for that same message, also when calls of one session
\* overlap at the model call: a call that returns from the model leaves its
\* message and the reply it returns as the last two turns.
C36_UserTurnFollowedByItsReply ==
    /\ \A id \in DOMAIN sessions : HumanTurnsAnswered(sessions[id].conversation_history)
    /\ (IsCall /\ last.llm # NoLlm) =>
          /\ Len(Cur.conversation_history) >= 2
          /\ SubSeq(Cur.conversation_history, Len(Cur.conversation_history) - 1,
                    Len(Cur.conversation_history))
                = <<Turn("human", Req.message), Turn("ai", Resp.response)>>
          /\ Resp.response = (IF last.llm.ok THEN Strip(last.llm.content) ELSE FallbackText)

\* two calls with different messages were suspended together: the one that began
\* with an empty history returns after the other stored its turns
C36_Witness ==
    /\ IsCall
    /\ last.llm = LlmException
    /\ Len(last.llm_calls[1]) = 2
    /\ Len(Pre.conversation_history) = 2
    /\ Pre.conversation_history[1].type = "human"
    /\ Pre.conversation_history[1].content # Req.message
    /\ Pre.conversation_history[2].content # Resp.response


(***************************************************************************)
(* The lookup of a number's session id                                     *)
(***************************************************************************)
\* C37 as stated: get_mobile_session_id called for a number that has no mapping
\* leaves the mobile-to-session mapping and the session store unchanged.
C37_Original ==
    [][(/\ mlast'.op = "get_mobile_session_id"
        /\ nops' = nops + 1
        /\ normalize_mobile_number(mlast'.mobile_number) \notin DOMAIN mobile_to_session)
          => UNCHANGED <<mobile_to_session, mobile_sessions>>]_vars


(***************************************************************************)
(* The webhook log                                                         *)
(***************************************************************************)
MinOf(a, b) == IF a < b THEN a ELSE b

\* C39: after any sequence of add_webhook_log calls the manager retains exactly
\* the most recent min(n, 1000) entries in insertion order, and
\* get_recent_logs(limit) returns the min(limit, retained) most recently added
\* of them, newest first.
C39_LogKeepsMostRecent ==
    /\ Len(webhook_logs) = MinOf(nlogs, LogCap)
    /\ \A i \in 1..Len(webhook_logs) :
          webhook_logs[i].message_sid = nlogs - Len(webhook_logs) + i
    /\ wlast.op = "get_recent_logs" =>
          /\ Len(wlast.result) = MinOf(wlast.limit, Len(webhook_logs))
          /\ \A j \in 1..Len(wlast.result) :
                /\ wlast.result[j].message_sid = nlogs - j + 1
                /\ wlast.result[j] = WebhookLogEntry(webhook_logs[Len(webhook_logs) - j + 1])

\* two entries are asked for after the oldest entry was evicted
C39_Witness ==
    /\ wlast.op = "get_recent_logs"
    /\ wlast.limit = 2
    /\ nlogs = LogCap + 1
    /\ webhook_logs[1].message_sid = 2
    /\ wlast.result[1].message_sid = LogCap + 1
    /\ wlast.result[1].status = "failed"
    /\ wlast.result[2].status = "delivered"


(***************************************************************************)
(* The standalone SMS bot                                                  *)
(***************************************************************************)
\* C38 as stated: the message list get_chatbot_response sends to the model
\* begins with the system prompt, after any number of exchanges with the number.
C38_Original ==
    blast.op = "get_chatbot_response" =>
        /\ blast.messages # <<>>
        /\ blast.messages[1] = [role |-> "system", content |-> BotSystemPrompt]


(***************************************************************************)
(* A second booking in the same session                                    *)
(***************************************************************************)
\* the answer given to every question of the first booking
EarlierAnswer == StoredAnswer(MsgOnsite)

\* the first booking is over
AfterFirstBooking == nmsgs > Len(RebookScript)

\* a booking is started in a session whose earlier booking completed
RestartCall ==
    /\ IsCall
    /\ ~PreAppt.is_booking
    /\ PreAppt.current_question = NQuestions
    /\ Resp.appointment_escalation

\* C32: a booking started after an earlier booking of the session completed
\* begins at question 0 with an empty answer map, and the later booking and its
\* confirmation contain no answer given in the earlier one.
C32_SecondBookingStartsEmpty ==
    /\ RestartCall =>
          CurAppt = [is_booking |-> TRUE, current_question |-> 0, answers |-> <<>>]
    /\ (AfterFirstBooking /\ CurAppt.is_booking) =>
          \A k \in DOMAIN CurAppt.answers : CurAppt.answers[k] # EarlierAnswer
    /\ (AfterFirstBooking /\ CompletedFlow) =>
          /\ \A k \in DOMAIN CurAppt.answers : CurAppt.answers[k] # EarlierAnswer
          /\ Resp.response = generate_confirmation(CurAppt.answers)
          /\ ~HasRun(Resp.response, EarlierAnswer)

\* the second booking completes: its confirmation is returned
C32_Witness ==
    /\ AfterFirstBooking
    /\ CompletedFlow
    /\ DOMAIN CurAppt.answers = QuestionKeys(NQuestions)
    /\ HasRun(Resp.response, StoredAnswer(MsgHelpBook))
    /\ \E i \in 1..Len(Cur.conversation_history) :
          HasRun(Cur.conversation_history[i].content, EarlierAnswer)


(***************************************************************************)
(* Sessions are separate                                                   *)
(***************************************************************************)
\* the model outcome of the step, for the calls that made no model call too
StepLlm == IF last'.llm = NoLlm THEN LlmReply ELSE last'.llm

\* C31: handling a message for one session key changes only that session: the
\* appointment state and the history of every other session stay as they were;
\* and a session created by the call shares nothing with the sessions there
\* are: it is what the same call leaves in a store with no other session.
C31_OtherSessionsUnchanged ==
    [][MessageStep =>
          LET id == last'.response.session_id
          IN  /\ DOMAIN sessions' = (DOMAIN sessions) \cup {id}
              /\ \A other \in (DOMAIN sessions) \ {id} : sessions'[other] = sessions[other]
              /\ id \notin DOMAIN sessions =>
                    sessions'[id] = process_message(<<>>, last'.request, StepLlm, id).sessions[id]]_vars

\* a second session starts a booking while the first is at its second question
C31_Witness ==
    /\ IsCall
    /\ ~last.existed
    /\ CurAppt = [is_booking |-> TRUE, current_question |-> 0, answers |-> <<>>]
    /\ Len(Cur.conversation_history) = 1
    /\ \E other \in (DOMAIN sessions) \ {LastId} :
          /\ sessions[other].appointment_state.current_question = 1
          /\ DOMAIN sessions[other].appointment_state.answers = {QuestionKey(0)}
          /\ Len(sessions[other].conversation_history) = 2


(***************************************************************************)
(* The SMS service                                                         *)
(***************************************************************************)
\* the step is a call of send_sms
SmsStep == nmsgs' = nmsgs + 1 /\ slast'.op = "send_sms"

\* the session the chatbot holds for the sender of the last send_sms call
SmsChatSession == SessionOf(sessions, slast.session_id)

\* C33 as stated: the in_appointment_booking value process_message_with_chatbot
\* reports equals the booking flag of the session the chatbot has just updated
\* for that number.
C33_Original ==
    slast.op = "send_sms" =>
        slast.in_appointment_booking = SmsChatSession.appointment_state.is_booking

\* C34 as stated: after clear_mobile_session(number) returned true, the next
\* message from that number is not treated as a booking answer, and the context
\* sent to the model contains no turn from before the clear.
C34_Original ==
    [][(/\ mlast.op = "clear"
        /\ mlast.result
        /\ SmsStep
        /\ normalize_mobile_number(slast'.mobile_number) = normalize_mobile_number(mlast.mobile_number))
          => /\ ~last'.pre.appointment_state.is_booking
             /\ last'.llm_calls # <<>> => Len(last'.llm_calls[1]) = 2]_vars

\* C35 as stated: if the Twilio delivery in send_sms fails, the sender's session
\* is as it was before the call.
C35_Original ==
    (slast.op = "send_sms" /\ slast.raised = "twilio") => SmsChatSession = slast.pre

\* C35, amended: send_sms runs the chatbot before the delivery, so when the
\* delivery fails the session of the sender is as process_message left it, the
\* same as when the delivery succeeds: flag, index, answers and history are
\* changed, and the user's and the assistant's turn are in the history the
\* MobileSessionManager keeps.
C35_FailedDeliveryKeepsChanges ==
    [][(SmsStep /\ slast'.raised = "twilio") =>
          LET chat == process_message(sessions, last'.request, StepLlm, last'.request.session_id)
              key == mlast'.session_id
              before == IF key \in DOMAIN mobile_sessions
                        THEN mobile_sessions[key].conversation_history ELSE <<>>
          IN  /\ sessions' = chat.sessions
              /\ slast'.chatbot_response = chat.response.response
              /\ sessions'[slast'.session_id] # slast'.pre
              /\ mobile_sessions'[key].conversation_history
                    = before \o <<Turn("user", slast'.message),
                                  Turn("assistant", chat.response.response)>>]_vars

\* an answer to the first question is recorded although its reply was not delivered
C35_Witness ==
    /\ slast.op = "send_sms"
    /\ slast.raised = "twilio"
    /\ slast.pre.appointment_state.is_booking
    /\ slast.pre.appointment_state.current_question = 0
    /\ SmsChatSession.appointment_state.current_question = 1
    /\ DOMAIN SmsChatSession.appointment_state.answers = {QuestionKey(0)}

====
